---- MODULE Spec2Model ----
(***************************************************************************)
(* Model of the phrase-based internal-linking engine                       *)
(* (src/netlify/functions/server.ts, lines 65-485): readSitemap builds a   *)
(* keyword map from sitemap URLs, processInternalLinks rewrites a markdown *)
(* content line by line, inserting [phrase](url) links.                    *)
(*                                                                         *)
(* A JavaScript string is modelled as a sequence of one-character strings, *)
(* with 1-based indices; offsets stored in the program state (spans,       *)
(* lineOffset, currentPosition, phraseIndex) keep the 0-based values of    *)
(* the code.                                                               *)
(***************************************************************************)
EXTENDS Integers, Sequences, FiniteSets, TLC

(***************************************************************************)
(* Bounds of the model.                                                    *)
(***************************************************************************)
\* a content has 1..MaxLines lines
MaxLines == 2

(***************************************************************************)
(* Characters and the string primitives of JavaScript used by the code.    *)
(***************************************************************************)
UpperChars == <<"A","B","C","D","E","F","G","H","I","J","K","L","M",
                "N","O","P","Q","R","S","T","U","V","W","X","Y","Z">>
LowerChars == <<"a","b","c","d","e","f","g","h","i","j","k","l","m",
                "n","o","p","q","r","s","t","u","v","w","x","y","z">>
DigitChars == {"0","1","2","3","4","5","6","7","8","9"}
UpperSet == {UpperChars[i] : i \in DOMAIN UpperChars}
LowerSet == {LowerChars[i] : i \in DOMAIN LowerChars}

\* \s of a JavaScript regular expression, and the characters trim() removes
WhiteSpace == {" ", "\n", "\t", "\r"}

\* the characters natural.WordTokenizer keeps: [A-Za-z0-9_]
WordChars == UpperSet \cup LowerSet \cup DigitChars \cup {"_"}

\* the sentence delimiters of /[.!?]+/
SentenceEnd == {".", "!", "?"}

EmptyStr == << >>

Min(S) == CHOOSE x \in S : \A y \in S : x <= y
Max(S) == CHOOSE x \in S : \A y \in S : x >= y

\* the n-th smallest element of a finite set of integers
Nth(S, n) == CHOOSE x \in S : Cardinality({y \in S : y < x}) = n - 1
SortedSeq(S) == [n \in 1..Cardinality(S) |-> Nth(S, n)]

Range(q) == {q[i] : i \in DOMAIN q}

\* String.prototype.toLowerCase, one character
LowerOf(c) ==
    IF c \in UpperSet
    THEN LowerChars[CHOOSE i \in DOMAIN UpperChars : UpperChars[i] = c]
    ELSE c

\* String.prototype.toLowerCase
ToLower(s) == [i \in 1..Len(s) |-> LowerOf(s[i])]

\* s.slice(from) with a 1-based first index
Drop(s, from) == SubSeq(s, from, Len(s))

StartsWith(s, p) == Len(p) <= Len(s) /\ SubSeq(s, 1, Len(p)) = p
EndsWith(s, p) == Len(p) <= Len(s) /\ SubSeq(s, Len(s) - Len(p) + 1, Len(s)) = p

\* the 1-based positions at which p occurs in s, from position `from` on
Occurrences(s, p, from) ==
    {i \in from..(Len(s) - Len(p) + 1) : SubSeq(s, i, i + Len(p) - 1) = p}

\* String.prototype.indexOf as a 1-based position; 0 stands for -1
IndexOf(s, p, from) ==
    LET occ == Occurrences(s, p, from)
    IN  IF occ = {} THEN 0 ELSE Min(occ)

\* String.prototype.includes
Includes(s, p) == Occurrences(s, p, 1) # {}

\* String.prototype.trimEnd
TrimEnd(s) ==
    LET keep == {i \in 1..Len(s) : s[i] \notin WhiteSpace}
    IN  IF keep = {} THEN EmptyStr ELSE SubSeq(s, 1, Max(keep))

\* String.prototype.trim
Trim(s) ==
    LET keep == {i \in 1..Len(s) : s[i] \notin WhiteSpace}
    IN  IF keep = {} THEN EmptyStr ELSE SubSeq(s, Min(keep), Max(keep))

\* the maximal runs of characters outside seps, in order: what
\* s.split(/[seps]+/) returns once its empty strings are dropped
Runs(s, seps) ==
    LET starts == {i \in 1..Len(s) :
                      s[i] \notin seps /\ (i = 1 \/ s[i-1] \in seps)}
        endOf(i) == Min({j \in i..Len(s) : j = Len(s) \/ s[j+1] \in seps})
        ordered == SortedSeq(starts)
    IN  [n \in 1..Cardinality(starts) |->
            SubSeq(s, ordered[n], endOf(ordered[n]))]

\* content.split('\n'): the pieces between newlines, empty pieces kept
SplitLines(s) ==
    LET nl == {i \in 1..Len(s) : s[i] = "\n"}
        cuts == SortedSeq(nl)
        n == Cardinality(nl)
        lo(k) == IF k = 1 THEN 1 ELSE cuts[k-1] + 1
        hi(k) == IF k = n + 1 THEN Len(s) ELSE cuts[k] - 1
    IN  [k \in 1..(n + 1) |-> SubSeq(s, lo(k), hi(k))]

\* Array.prototype.join
RECURSIVE Join(_, _)
Join(parts, sep) ==
    IF Len(parts) = 0 THEN EmptyStr
    ELSE IF Len(parts) = 1 THEN parts[1]
    ELSE parts[1] \o sep \o Join(Tail(parts), sep)

\* insertion of x into a JavaScript Set kept as a duplicate-free sequence
SetAdd(q, x) == IF x \in Range(q) THEN q ELSE Append(q, x)

(***************************************************************************)
(* The regular expressions of the engine, by what they match.              *)
(***************************************************************************)
NoMatch == [start |-> 0, end |-> 0]

\* `.` of a regular expression matches no line terminator
NoNewline(s, from, to) == \A k \in from..to : s[k] \notin {"\n", "\r"}

\* first match of /\[.*?\]\(.*?\)/ in s: positions start..end (1-based,
\* inclusive).  From a "[" the lazy .*? runs to the first "](" and then
\* to the first ")" after it.
LazyLinkAt(s, i) ==
    IF i > Len(s) \/ s[i] # "[" THEN 0
    ELSE LET j == IndexOf(s, <<"]", "(">>, i + 1)
         IN  IF j = 0 \/ ~NoNewline(s, i + 1, j - 1) THEN 0
             ELSE LET k == IndexOf(s, <<")">>, j + 2)
                  IN  IF k = 0 \/ ~NoNewline(s, j + 2, k - 1) THEN 0 ELSE k

LazyLinkMatch(s) ==
    LET hits == {i \in 1..Len(s) : LazyLinkAt(s, i) # 0}
    IN  IF hits = {} THEN NoMatch
        ELSE [start |-> Min(hits), end |-> LazyLinkAt(s, Min(hits))]

\* s.replace(/\[.*?\]\(.*?\)/g, '')
RECURSIVE StripLinks(_)
StripLinks(s) ==
    LET m == LazyLinkMatch(s)
    IN  IF m = NoMatch THEN s
        ELSE SubSeq(s, 1, m.start - 1) \o StripLinks(Drop(s, m.end + 1))

\* first match of /https?:\/\/[^\s)]+/ : the scheme, then the longest run
\* of characters that are neither white space nor ")"
UrlBodyStart(s, i) ==
    IF StartsWith(Drop(s, i), <<"h","t","t","p","s",":","/","/">>) THEN i + 8
    ELSE IF StartsWith(Drop(s, i), <<"h","t","t","p",":","/","/">>) THEN i + 7
    ELSE 0

UrlAt(s, i) ==
    LET b == UrlBodyStart(s, i)
        stop == WhiteSpace \cup {")"}
    IN  IF b = 0 \/ b > Len(s) \/ s[b] \in stop THEN 0
        ELSE Min({j \in b..Len(s) : j = Len(s) \/ s[j+1] \in stop})

UrlMatch(s) ==
    LET hits == {i \in 1..Len(s) : UrlAt(s, i) # 0}
    IN  IF hits = {} THEN NoMatch
        ELSE [start |-> Min(hits), end |-> UrlAt(s, Min(hits))]

\* s.replace(/https?:\/\/[^\s)]+/g, '')
RECURSIVE StripUrls(_)
StripUrls(s) ==
    LET m == UrlMatch(s)
    IN  IF m = NoMatch THEN s
        ELSE SubSeq(s, 1, m.start - 1) \o StripUrls(Drop(s, m.end + 1))

\* first match of /\*\*(.*?)\*\*/ : an opening "**" and the first "**"
\* after it on the same line
BoldAt(s, i) ==
    IF ~StartsWith(Drop(s, i), <<"*", "*">>) THEN 0
    ELSE LET j == IndexOf(s, <<"*", "*">>, i + 2)
         IN  IF j = 0 \/ ~NoNewline(s, i + 2, j - 1) THEN 0 ELSE j + 1

BoldMatch(s) ==
    LET hits == {i \in 1..Len(s) : BoldAt(s, i) # 0}
    IN  IF hits = {} THEN NoMatch
        ELSE [start |-> Min(hits), end |-> BoldAt(s, Min(hits))]

\* s.replace(/\*\*(.*?)\*\*/g, '$1')
RECURSIVE StripBold(_)
StripBold(s) ==
    LET m == BoldMatch(s)
    IN  IF m = NoMatch THEN s
        ELSE SubSeq(s, 1, m.start - 1) \o SubSeq(s, m.start + 2, m.end - 2)
                \o StripBold(Drop(s, m.end + 1))

\* the matches of boldRegex.exec over a line, as 0-based half-open spans
RECURSIVE BoldSpans(_, _)
BoldSpans(s, base) ==
    LET m == BoldMatch(s)
    IN  IF m = NoMatch THEN << >>
        ELSE <<[start |-> base + m.start - 1, end |-> base + m.end]>>
                \o BoldSpans(Drop(s, m.end + 1), base + m.end)

\* first match of linkRegex /\[([^\]]+)\]\(([^)]+)\)/ : "[", one or more
\* characters other than "]", "](", one or more characters other than ")",
\* ")"
LinkAt(s, i) ==
    IF i > Len(s) \/ s[i] # "[" THEN 0
    ELSE LET j == IndexOf(s, <<"]">>, i + 1)
         IN  IF j = 0 \/ j < i + 2 \/ j + 1 > Len(s) THEN 0
             ELSE IF s[j+1] # "(" THEN 0
             ELSE LET k == IndexOf(s, <<")">>, j + 2)
                  IN  IF k = 0 \/ k < j + 3 THEN 0 ELSE k

LinkMatch(s) ==
    LET hits == {i \in 1..Len(s) : LinkAt(s, i) # 0}
    IN  IF hits = {} THEN NoMatch
        ELSE [start |-> Min(hits), end |-> LinkAt(s, Min(hits))]

\* the spans pushed by the while (linkRegex.exec(content)) loop: 0-based
\* start, exclusive end
RECURSIVE ExistingLinkSpans(_, _)
ExistingLinkSpans(s, base) ==
    LET m == LinkMatch(s)
    IN  IF m = NoMatch THEN << >>
        ELSE <<[start |-> base + m.start - 1, end |-> base + m.end]>>
                \o ExistingLinkSpans(Drop(s, m.end + 1), base + m.end)

(***************************************************************************)
(* natural.WordTokenizer and natural.PorterStemmer (library code the       *)
(* engine calls).  The stemmer is Porter's algorithm; steps 1a, 1b, 1c,    *)
(* 5a and 5b are written out.  Steps 2, 3 and 4 strip derivational         *)
(* suffixes (-ational, -ization, -ness, -ment, ...) that no word of the    *)
(* vocabulary below carries, so they leave every word here unchanged.      *)
(***************************************************************************)
\* tokenizer.tokenize(s): split on runs of characters outside [A-Za-z0-9_]
Tokenize(s) ==
    LET gaps == {s[i] : i \in 1..Len(s)} \ WordChars
    IN  Runs(s, gaps)

PlainVowels == {"a", "e", "i", "o", "u"}

\* a vowel, or a "y" that follows a consonant
IsVowelAt(w, i) ==
    \/ w[i] \in PlainVowels
    \/ w[i] = "y" /\ i > 1 /\ w[i-1] \notin (PlainVowels \cup {"y"})

HasVowel(w) == \E i \in 1..Len(w) : IsVowelAt(w, i)

\* Porter's measure m: the number of vowel-consonant sequences
Measure(w) ==
    Cardinality({i \in 1..(Len(w) - 1) : IsVowelAt(w, i) /\ ~IsVowelAt(w, i + 1)})

\* /([^aeiou])\1$/
EndsWithDoubleCons(w) ==
    Len(w) >= 2 /\ w[Len(w)] = w[Len(w) - 1] /\ w[Len(w)] \notin PlainVowels

\* /[^aeiou][aeiouy][^aeiouwxy]$/
EndsCVC(w) ==
    /\ Len(w) >= 3
    /\ w[Len(w) - 2] \notin PlainVowels
    /\ w[Len(w) - 1] \in (PlainVowels \cup {"y"})
    /\ w[Len(w)] \notin (PlainVowels \cup {"w", "x", "y"})

Chop(w, n) == SubSeq(w, 1, Len(w) - n)

Step1a(w) ==
    IF EndsWith(w, <<"s","s","e","s">>) \/ EndsWith(w, <<"i","e","s">>)
    THEN Chop(w, 2)
    ELSE IF Len(w) > 2 /\ w[Len(w)] = "s" /\ w[Len(w) - 1] # "s"
    THEN Chop(w, 1)
    ELSE w

\* what step 1b does to the stem left once -ed or -ing is removed
Step1bFix(t) ==
    IF EndsWith(t, <<"a","t">>) \/ EndsWith(t, <<"b","l">>) \/ EndsWith(t, <<"i","z">>)
    THEN Append(t, "e")
    ELSE IF EndsWithDoubleCons(t) /\ t[Len(t)] \notin {"l", "s", "z"}
    THEN Chop(t, 1)
    ELSE IF Measure(t) = 1 /\ EndsCVC(t)
    THEN Append(t, "e")
    ELSE t

Step1b(w) ==
    IF EndsWith(w, <<"e","e","d">>)
    THEN IF Measure(Chop(w, 3)) > 0 THEN Chop(w, 1) ELSE w
    ELSE IF EndsWith(w, <<"e","d">>)
    THEN IF HasVowel(Chop(w, 2)) THEN Step1bFix(Chop(w, 2)) ELSE w
    ELSE IF EndsWith(w, <<"i","n","g">>)
    THEN IF HasVowel(Chop(w, 3)) THEN Step1bFix(Chop(w, 3)) ELSE w
    ELSE w

Step1c(w) ==
    IF Len(w) >= 1 /\ w[Len(w)] = "y" /\ HasVowel(Chop(w, 1))
    THEN Append(Chop(w, 1), "i")
    ELSE w

Step5a(w) ==
    IF Len(w) >= 1 /\ w[Len(w)] = "e"
    THEN LET t == Chop(w, 1)
             m == Measure(t)
         IN  IF m > 1 \/ (m = 1 /\ ~EndsCVC(t)) THEN t ELSE w
    ELSE w

Step5b(w) ==
    IF Measure(w) > 1 /\ EndsWith(w, <<"l","l">>) THEN Chop(w, 1) ELSE w

\* stemmer.stem(token): tokens shorter than 3 are returned as they are
stem(token) ==
    IF Len(token) < 3 THEN token
    ELSE Step5b(Step5a(Step1c(Step1b(Step1a(ToLower(token))))))

\* mutant: a cached word is answered with the entry of another word
cachedStemAnyEntry(cache, word) ==
    IF word \in DOMAIN cache
    THEN cache[CHOOSE w \in DOMAIN cache : \A v \in DOMAIN cache : Len(w) <= Len(v)]
    ELSE stem(word)

\* cachedStem(word), reading the stem cache `cache` (a function from the
\* words seen so far to their stems)
cachedStem(cache, word) ==
    IF word \in DOMAIN cache THEN cache[word] ELSE stem(word)

\* the stem cache after cachedStem was called on each word of `words`
CacheAfter(cache, words) ==
    [w \in (DOMAIN cache) \cup words |->
        IF w \in DOMAIN cache THEN cache[w] ELSE stem(w)]

(***************************************************************************)
(* extractPhrasesFromContent                                               *)
(***************************************************************************)
\* the filter of cleanSentence.split(/\s+/)
IsCandidateWord(w) ==
    /\ Len(w) > 1
    /\ w[1] \notin {"[", "("}
    /\ w[Len(w)] \notin {"]", ")"}
    /\ ~Includes(w, <<"/">>)
    /\ ~(\A i \in 1..Len(w) : w[i] \in DigitChars \cup {"-"})

\* the replace chain that builds cleanSentence
CleanSentence(sentence) == StripBold(StripUrls(StripLinks(sentence)))

RECURSIVE FilterWords(_)
FilterWords(ws) ==
    IF ws = << >> THEN << >>
    ELSE IF IsCandidateWord(Head(ws)) THEN <<Head(ws)>> \o FilterWords(Tail(ws))
    ELSE FilterWords(Tail(ws))

SentenceWords(sentence) == FilterWords(Runs(CleanSentence(sentence), WhiteSpace))

\* the body of the loop over i: the 3-word phrase, then the 2-word phrase
RECURSIVE AddNGrams(_, _, _)
AddNGrams(words, i, acc) ==
    IF i > Len(words) THEN acc
    ELSE LET three == Join(SubSeq(words, i, i + 2), <<" ">>)
             acc1 == IF i + 2 <= Len(words) /\ Len(three) >= 5
                     THEN SetAdd(acc, three) ELSE acc
             two == Join(SubSeq(words, i, i + 1), <<" ">>)
             acc2 == IF i + 1 <= Len(words) /\ Len(two) >= 4
                     THEN SetAdd(acc1, two) ELSE acc1
         IN  AddNGrams(words, i + 1, acc2)

\* a single word is a phrase when it is long, has no dot and is capitalized
IsSignificantWord(w) ==
    Len(w) >= 5 /\ ~Includes(w, <<".">>) /\ w[1] \in UpperSet

RECURSIVE AddSingles(_, _)
AddSingles(words, acc) ==
    IF words = << >> THEN acc
    ELSE AddSingles(Tail(words),
                    IF IsSignificantWord(Head(words))
                    THEN SetAdd(acc, Head(words)) ELSE acc)

\* content.split(/[.!?]+/).map(s => s.trim()).filter(Boolean)
RECURSIVE DropEmpty(_)
DropEmpty(q) ==
    IF q = << >> THEN << >>
    ELSE IF Head(q) = EmptyStr THEN DropEmpty(Tail(q))
    ELSE <<Head(q)>> \o DropEmpty(Tail(q))

Sentences(content) ==
    LET raw == Runs(content, SentenceEnd)
    IN  DropEmpty([n \in 1..Len(raw) |-> Trim(raw[n])])

RECURSIVE PhrasesOfSentences(_, _)
PhrasesOfSentences(sentences, acc) ==
    IF sentences = << >> THEN acc
    ELSE LET words == SentenceWords(Head(sentences))
         IN  PhrasesOfSentences(Tail(sentences),
                                AddSingles(words, AddNGrams(words, 1, acc)))

extractPhrasesFromContent(content) ==
    PhrasesOfSentences(Sentences(content), << >>)

\* phrases.sort((a, b) => b.length - a.length): longest first, and stable
SortByLengthDesc(q) ==
    LET before(i) == Cardinality({j \in 1..Len(q) :
                        \/ Len(q[j]) > Len(q[i])
                        \/ Len(q[j]) = Len(q[i]) /\ j < i})
    IN  [n \in 1..Len(q) |-> q[CHOOSE i \in 1..Len(q) : before(i) = n - 1]]

(***************************************************************************)
(* calculateSemanticSimilarity, findRelatedKeywords, getContext            *)
(***************************************************************************)
\* a JavaScript number that is a quotient of two set sizes is kept as the
\* pair; den = 0 is the NaN of 0 / 0
Score(n, d) == [num |-> n, den |-> d]

\* mutant: an equal score replaces the best match as well
ScoreGreaterOrEqual(a, b) ==
    a.den # 0 /\ b.den # 0 /\ a.num * b.den >= b.num * a.den

\* a > b on two quotients; every comparison with NaN is false
ScoreGreater(a, b) ==
    a.den # 0 /\ b.den # 0 /\ a.num * b.den > b.num * a.den

\* mutant: two thirds are enough
MeetsTwoThirds(sc) == sc.den # 0 /\ 3 * sc.num >= 2 * sc.den

\* score >= 0.8
MeetsThreshold(sc) == sc.den # 0 /\ 5 * sc.num >= 4 * sc.den

\* score > 0.5
AboveHalf(sc) == sc.den # 0 /\ 2 * sc.num > sc.den

StemSet(cache, tokens) == {cachedStem(cache, tokens[i]) : i \in 1..Len(tokens)}

\* mutant: the intersection is measured against the first set alone
JaccardOfFirst(set1, set2) ==
    Score(Cardinality(set1 \cap set2), Cardinality(set1))

\* intersection.size / union.size of two sets of stems
Jaccard(set1, set2) ==
    Score(Cardinality(set1 \cap set2), Cardinality(set1 \cup set2))

\* |intersection| / |union| of the stemmed token sets; Math.min(1, x)
\* leaves a quotient of that shape, and NaN, as they are
calculateSemanticSimilarity(cache, phrase1, phrase2) ==
    Jaccard(StemSet(cache, Tokenize(ToLower(phrase1))),
            StemSet(cache, Tokenize(ToLower(phrase2))))

\* the words calculateSemanticSimilarity hands to cachedStem
SimilarityWords(phrase1, phrase2) ==
    Range(Tokenize(ToLower(phrase1))) \cup Range(Tokenize(ToLower(phrase2)))

\* the result null of findRelatedKeywords
NoKeyword == [found |-> FALSE]

\* a Map value that is null instead of a metadata object
Null == [isNull |-> TRUE]

\* findRelatedKeywords left through an exception: destructuring a null
\* metadata is a TypeError
Thrown == [found |-> FALSE, threw |-> TRUE]

\* mutant: the flag is never read, every entry is matched by similarity
IsSingleWordIgnored(metadata) == FALSE

\* const { url, isSingleWord } = metadata: a field the entry does not
\* have reads as undefined, which is falsy
IsSingleWordOf(metadata) ==
    IF "isSingleWord" \in DOMAIN metadata THEN metadata.isSingleWord ELSE FALSE

\* the for loop of findRelatedKeywords from entry i on.  The result is
\* [match, cache]: what the function returns and the stem cache it leaves.
RECURSIVE FindLoop(_, _, _, _, _, _, _)

\* lines 244-251: entry i becomes the best match when its score is greater
KeepBest(cache, phrase, phraseWords, sitemapKeywords, i, bestMatch, bestScore, score) ==
    IF ScoreGreater(score, bestScore)
    THEN FindLoop(cache, phrase, phraseWords, sitemapKeywords, i + 1,
                  [found |-> TRUE, key |-> sitemapKeywords[i].key,
                   url |-> sitemapKeywords[i].meta.url, score |-> score],
                  score)
    ELSE FindLoop(cache, phrase, phraseWords, sitemapKeywords, i + 1,
                  bestMatch, bestScore)

\* lines 231-242: entry i is scored by the stems of its words.  cachedStem
\* gives a word the same stem whether or not an earlier call has cached
\* it, so both stem sets are read off the cache the entry starts with, and
\* the cache the entry leaves holds the words of both.
ScoreEntry(cache, phrase, phraseWords, sitemapKeywords, i, bestMatch, bestScore, keywordWords) ==
    IF Len(keywordWords) = 0
    THEN FindLoop(cache, phrase, phraseWords, sitemapKeywords, i + 1,
                  bestMatch, bestScore)
    ELSE KeepBest(CacheAfter(cache, Range(phraseWords) \cup Range(keywordWords)),
                  phrase, phraseWords, sitemapKeywords, i, bestMatch, bestScore,
                  Jaccard(StemSet(cache, phraseWords), StemSet(cache, keywordWords)))

FindLoop(cache, phrase, phraseWords, sitemapKeywords, i, bestMatch, bestScore) ==
    IF i > Len(sitemapKeywords)
    THEN [match |-> IF MeetsThreshold(bestScore) THEN bestMatch ELSE NoKeyword,
          cache |-> cache]
    ELSE IF sitemapKeywords[i].meta = Null
    THEN [match |-> Thrown, cache |-> cache]
    ELSE IF IsSingleWordOf(sitemapKeywords[i].meta)
    THEN IF ToLower(phrase) = sitemapKeywords[i].key
         THEN [match |-> [found |-> TRUE, key |-> sitemapKeywords[i].key,
                          url |-> sitemapKeywords[i].meta.url,
                          score |-> Score(1, 1)],
               cache |-> cache]
         ELSE FindLoop(cache, phrase, phraseWords, sitemapKeywords, i + 1,
                       bestMatch, bestScore)
    ELSE ScoreEntry(cache, phrase, phraseWords, sitemapKeywords, i, bestMatch,
                    bestScore, Tokenize(sitemapKeywords[i].key))

\* lines 209-213: the tokens of the phrase, then the loop
FindFrom(cache, phrase, phraseWords, sitemapKeywords) ==
    IF Len(phraseWords) = 0
    THEN [match |-> NoKeyword, cache |-> cache]
    ELSE FindLoop(cache, phrase, phraseWords, sitemapKeywords, 1,
                  NoKeyword, Score(0, 1))

findRelatedKeywords(cache, phrase, sitemapKeywords) ==
    FindFrom(cache, phrase, Tokenize(ToLower(phrase)), sitemapKeywords)

\* the first match of /[^.!?]*?PHRASE[^.!?]*/ in content, trimmed: it
\* starts after the last sentence delimiter before the first occurrence of
\* the phrase and runs to the next delimiter after it; '' without a match
getContext(content, phrase) ==
    LET occ == Occurrences(content, phrase, 1)
    IN  IF occ = {} THEN EmptyStr
        ELSE LET p == Min(occ)
                 before == {k \in 1..(p - 1) : content[k] \in SentenceEnd}
                 a == IF before = {} THEN 1 ELSE Max(before) + 1
                 after == {k \in (p + Len(phrase))..Len(content) :
                              content[k] \in SentenceEnd}
                 e == IF after = {} THEN Len(content) ELSE Min(after) - 1
             IN  Trim(SubSeq(content, a, e))

\* surroundingText.split(/\s+/) on a trimmed text: '' gives ['']
SplitWords(text) ==
    IF text = EmptyStr THEN <<EmptyStr>> ELSE Runs(text, WhiteSpace)

\* lines 426-428: the || of the two tests.  The right-hand test runs only
\* when the left-hand one fails, and each test that runs leaves the words
\* it stemmed in the cache.
EitherSide(cache, byLeft, byRight, leftWords, rightWords) ==
    [skip |-> byLeft \/ byRight,
     cache |-> CacheAfter(cache, IF byLeft THEN leftWords
                                 ELSE leftWords \cup rightWords)]

\* lines 422-428 for the neighbours of the word found
Neighbours(cache, prevWord, nextWord, phrase, key) ==
    EitherSide(cache,
               /\ prevWord # EmptyStr
               /\ AboveHalf(calculateSemanticSimilarity(
                                cache, prevWord \o <<" ">> \o phrase, key)),
               /\ nextWord # EmptyStr
               /\ AboveHalf(calculateSemanticSimilarity(
                                cache, phrase \o <<" ">> \o nextWord, key)),
               IF prevWord # EmptyStr
               THEN SimilarityWords(prevWord \o <<" ">> \o phrase, key) ELSE {},
               IF nextWord # EmptyStr
               THEN SimilarityWords(phrase \o <<" ">> \o nextWord, key) ELSE {})

\* lines 418-423: findIndex over the words of the context
AroundWord(cache, words, hits, phrase, key) ==
    IF hits = {} THEN [skip |-> FALSE, cache |-> cache]
    ELSE Neighbours(cache,
                    IF Min(hits) > 1 THEN words[Min(hits) - 1] ELSE EmptyStr,
                    IF Min(hits) < Len(words) THEN words[Min(hits) + 1] ELSE EmptyStr,
                    phrase, key)

WordsAround(cache, words, phrase, key) ==
    AroundWord(cache, words,
               {i \in 1..Len(words) : Includes(ToLower(words[i]), ToLower(phrase))},
               phrase, key)

\* the single-word test of lines 415-431: [skip, cache], skip meaning the
\* word is taken to be part of a larger phrase
PartOfPhrase(cache, currentLine, phrase, key) ==
    WordsAround(cache, SplitWords(getContext(currentLine, phrase)), phrase, key)

(***************************************************************************)
(* The sitemap side: fetchAndParseSitemap, extractUrlsFromSitemap,         *)
(* readSitemap.  The web is a function from a sitemap URL to the parsed    *)
(* document found there: [kind |-> "urlset", locs |-> ...],                *)
(* [kind |-> "sitemapindex", locs |-> ...], or [kind |-> "error"] when the *)
(* fetch or the XML parse fails.                                           *)
(***************************************************************************)
Failed == [ok |-> FALSE, urls |-> << >>]

\* fetchAndParseSitemap: the document, or an exception (ok = FALSE)
fetchAndParseSitemap(web, sitemapUrl) ==
    IF sitemapUrl \in DOMAIN web /\ web[sitemapUrl].kind # "error"
    THEN [ok |-> TRUE, doc |-> web[sitemapUrl]]
    ELSE [ok |-> FALSE]

\* mutant: a Set that already holds urls takes no more
AddAllIfEmpty(acc, q) == IF acc = << >> THEN q ELSE acc

RECURSIVE AddAll(_, _)
AddAll(acc, q) == IF q = << >> THEN acc ELSE AddAll(SetAdd(acc, Head(q)), Tail(q))

\* extractUrlsFromSitemap: the Set of URLs in insertion order, or the
\* exception of a nested fetch (ok = FALSE)
RECURSIVE extractUrlsFromSitemap(_, _)
RECURSIVE NestedUrls(_, _, _)
NestedUrls(web, nested, acc) ==
    IF nested = << >> THEN [ok |-> TRUE, urls |-> acc]
    ELSE LET got == fetchAndParseSitemap(web, Head(nested))
         IN  IF ~got.ok THEN Failed
             ELSE LET sub == extractUrlsFromSitemap(web, got.doc)
                  IN  IF ~sub.ok THEN Failed
                      ELSE NestedUrls(web, Tail(nested), AddAll(acc, sub.urls))

extractUrlsFromSitemap(web, sitemapData) ==
    IF sitemapData.kind = "sitemapindex"
    THEN NestedUrls(web, sitemapData.locs, << >>)
    ELSE IF sitemapData.kind = "urlset"
    THEN [ok |-> TRUE, urls |-> AddAll(<< >>, DropEmpty(sitemapData.locs))]
    ELSE [ok |-> TRUE, urls |-> << >>]

\* new URL(url).pathname for a URL of the shape scheme://host/path (the
\* URLs of the model have no query, fragment, dot segment or character
\* that the URL parser would escape); ok = FALSE is the TypeError of a
\* string that is no absolute URL
Pathname(url) ==
    LET i == IndexOf(url, <<":", "/", "/">>, 1)
    IN  IF i = 0 \/ i = 1 THEN [ok |-> FALSE]
        ELSE LET j == IndexOf(url, <<"/">>, i + 3)
             IN  [ok |-> TRUE,
                  path |-> IF j = 0 THEN <<"/">> ELSE Drop(url, j)]

\* pathname.split('/').pop(): what follows the last "/"
LastSegment(path) ==
    LET slashes == {k \in 1..Len(path) : path[k] = "/"}
    IN  IF slashes = {} THEN path ELSE Drop(path, Max(slashes) + 1)

\* pathSegment.replace(/-/g, ' ')
HyphensToSpaces(seg) == [k \in 1..Len(seg) |-> IF seg[k] = "-" THEN " " ELSE seg[k]]

\* Map.prototype.set on a Map kept as a sequence of [key, meta] in
\* insertion order: a key already present keeps its place and takes the
\* new value
MapSet(m, k, v) ==
    IF \E i \in 1..Len(m) : m[i].key = k
    THEN [i \in 1..Len(m) |-> IF m[i].key = k THEN [key |-> k, meta |-> v] ELSE m[i]]
    ELSE Append(m, [key |-> k, meta |-> v])

\* the body of the for (const url of urls) loop of readSitemap
KeywordsOfUrl(keywords, url) ==
    LET pn == Pathname(url)
    IN  IF ~pn.ok THEN keywords
        ELSE LET pathSegment == LastSegment(pn.path)
                 hyphen == Includes(pathSegment, <<"-">>)
                 keyword == HyphensToSpaces(pathSegment)
                 first == MapSet(keywords, keyword,
                                 [url |-> url, isHyphenated |-> hyphen])
             IN  IF pathSegment = EmptyStr THEN keywords
                 ELSE IF hyphen
                 THEN MapSet(first, pathSegment,
                             [url |-> url, isHyphenated |-> TRUE])
                 ELSE first

RECURSIVE KeywordsOfUrls(_, _)
KeywordsOfUrls(keywords, urls) ==
    IF urls = << >> THEN keywords
    ELSE KeywordsOfUrls(KeywordsOfUrl(keywords, Head(urls)), Tail(urls))

\* readSitemap: the keyword Map; any exception of the fetch, the parse or
\* a nested fetch is caught and gives an empty Map
readSitemap(web, sitemapUrl) ==
    LET got == fetchAndParseSitemap(web, sitemapUrl)
    IN  IF ~got.ok THEN << >>
        ELSE LET ex == extractUrlsFromSitemap(web, got.doc)
             IN  IF ~ex.ok THEN << >> ELSE KeywordsOfUrls(<< >>, ex.urls)

(***************************************************************************)
(* The inputs of the model: a small vocabulary, the lines built from it,   *)
(* the sitemaps a fetch can return and the Map a caller can pass.          *)
(***************************************************************************)
SP == <<" ">>
NL == <<"\n">>
wPricing == <<"P","r","i","c","i","n","g">>
wPrices == <<"P","r","i","c","e","s">>
wPlans == <<"P","l","a","n","s">>
wAnd == <<"a","n","d">>
wOur == <<"o","u","r">>
wPlan == <<"P","l","a","n">>
wWith == <<"w","i","t","h">>
kPricing == <<"p","r","i","c","i","n","g">>
kPlans == <<"p","l","a","n","s">>
OldUrl == <<"/","o","l","d">>
Site == <<"h","t","t","p","s",":","/","/","x",".","i","o","/">>

\* the markdown link [label](url)
MdLink(label, url) == <<"[">> \o label \o <<"]", "(">> \o url \o <<")">>

LineSamples ==
    { wPricing,
      wPrices,
      wPlans \o SP \o wPricing,
      wPricing \o SP \o MdLink(wPlans, OldUrl) \o SP \o wAnd \o SP \o wPlans,
      wPricing \o SP \o wAnd \o SP \o MdLink(wPricing, OldUrl),
      <<"#", " ">> \o wPricing \o SP,
      wOur \o SP \o kPricing \o SP \o kPlans \o <<".">>,
      <<"*", "*">> \o wPricing \o <<"*", "*">>,
      kPricing \o SP \o wAnd \o SP \o wPricing,
      wPricing \o SP \o wAnd \o SP \o wPrices \o SP \o wPlan \o SP \o wWith
          \o SP \o wPlans,
      EmptyStr }

Contents ==
    {Join(ls, NL) : ls \in UNION {[1..n -> LineSamples] : n \in 1..MaxLines}}

UrlPricing == Site \o kPricing
UrlPlans == Site \o kPlans
UrlPricingPlans == Site \o kPricing \o <<"-">> \o kPlans
UrlUpper == Site \o wPricing
MapUrl == <<"s","m">>
MapUrlA == <<"s","m","a">>
MapUrlB == <<"s","m","b">>

\* the fetch of the sitemap fails
WebDown == (MapUrl :> [kind |-> "error"])

\* a url set with a hyphenated page and a capitalized one
WebFlat ==
    (MapUrl :> [kind |-> "urlset", locs |-> <<UrlPricingPlans, UrlUpper>>])

\* a sitemap index over two url sets
WebIndex ==
    (MapUrl :> [kind |-> "sitemapindex", locs |-> <<MapUrlA, MapUrlB>>])
    @@ (MapUrlA :> [kind |-> "urlset", locs |-> <<UrlPricing>>])
    @@ (MapUrlB :> [kind |-> "urlset", locs |-> <<UrlPlans>>])

\* a url set with a hyphenated page and the pages of its two words
WebAll ==
    (MapUrl :> [kind |-> "urlset",
                locs |-> <<UrlPricingPlans, UrlPricing, UrlPlans>>])

Webs == {WebDown, WebFlat, WebIndex, WebAll}
\* no sitemap is read when the caller brings its own Map
NoWeb == << >>

\* the Map of Scenario A, passed to processInternalLinks by a direct caller
PricingMap ==
    << [key |-> kPricing,
        meta |-> [url |-> <<"/">> \o kPricing, isSingleWord |-> TRUE]] >>

\* a Map whose second value is null
BrokenMap ==
    PricingMap \o << [key |-> kPlans, meta |-> Null] >>

CallerMaps == {PricingMap, BrokenMap}

(***************************************************************************)
(* State.                                                                  *)
(***************************************************************************)
VARIABLES
    pc,               \* position of the caller / of processInternalLinks
    run,              \* 1: first call, 2: the call on the first call's output
    web,              \* what the sitemap URLs serve
    content,          \* argument of processInternalLinks
    firstContent,     \* the content of run 1
    sitemapKeywords,  \* the keyword Map, in insertion order
    stemCache,        \* module-level stemCache
    linkPositions,    \* occupied spans
    linkedKeywords,   \* Set of lower-cased keys linked in this call
    addedLinks,       \* found_links under construction
    stats,            \* [totalMatches, uniqueUrls]
    lines,            \* content.split('\n')
    lineIdx,          \* 1-based index of the line the for loop is at
    processedContent,
    currentPosition,
    currentLine,
    lineOffset,
    markdownFormats,
    phrases,          \* sorted phrases of the line
    phraseIdx,        \* 1-based index of the phrase the inner loop is at
    phrase,           \* the phrase of the last inner iteration
    relatedKeyword,   \* what findRelatedKeywords returned in that iteration
    outcome,          \* the branch that iteration left through
    result,           \* the object returned by processInternalLinks
    docSpans,         \* history: where each link really is in the document
    acceptedKeys,     \* history: the key of each accepted insertion
    keywordsIsMap,    \* sitemapKeywords instanceof Map
    callStack,        \* the pending calls of extractUrlsFromSitemap
    fetchLog,         \* the URLs handed to fetchAndParseSitemap, in order
    sim,              \* a call of calculateSemanticSimilarity and its result
    request,          \* the HTTP request a handler is serving
    handlerPc,        \* position of the handler
    calls,            \* the engine functions the handler has invoked
    responses,        \* the responses the handler has returned
    requests,         \* the cachedStem calls each concurrent request still makes
    probe,            \* a call of isPositionSafe and its answer
    sortedKeywords,   \* keyword scan: the entries, longest keyword first
    keywordIdx        \* keyword scan: 1-based index of the entry the loop is at

callVars == <<linkPositions, linkedKeywords, addedLinks, stats, lines, lineIdx,
              processedContent, currentPosition>>
lineVars == <<currentLine, lineOffset, markdownFormats, phrases, phraseIdx>>
iterVars == <<phrase, relatedKeyword, outcome>>
histVars == <<docSpans, acceptedKeys>>
inputVars == <<run, web, content, firstContent, sitemapKeywords, keywordsIsMap>>
crawlVars == <<callStack, fetchLog>>
handlerVars == <<request, handlerPc, calls, responses>>
extraVars == <<requests, probe, sortedKeywords, keywordIdx>>
auxVars == <<crawlVars, sim, handlerVars, extraVars>>
vars == <<pc, inputVars, stemCache, callVars, lineVars, iterVars, result, histVars,
          auxVars>>

NoResult == [found_links |-> << >>, updated_content |-> EmptyStr,
             stats |-> [totalMatches |-> -1, uniqueUrls |-> -1]]

\* the locals of processInternalLinks before the call
Idle ==
    /\ linkPositions = << >>
    /\ linkedKeywords = {}
    /\ addedLinks = << >>
    /\ stats = [totalMatches |-> 0, uniqueUrls |-> {}]
    /\ lines = << >>
    /\ lineIdx = 1
    /\ processedContent = EmptyStr
    /\ currentPosition = 0
    /\ currentLine = EmptyStr
    /\ lineOffset = 0
    /\ markdownFormats = << >>
    /\ phrases = << >>
    /\ phraseIdx = 1
    /\ phrase = EmptyStr
    /\ relatedKeyword = NoKeyword
    /\ outcome = "none"
    /\ result = NoResult
    /\ docSpans = << >>
    /\ acceptedKeys = << >>

\* no sitemap crawl, similarity call or HTTP request is under way
NoSim == [a |-> EmptyStr, b |-> EmptyStr, state |-> "none"]
NoRequest == [handler |-> "none"]
NoProbe == [state |-> "none"]
ExtraIdle ==
    /\ requests = << >>
    /\ probe = NoProbe
    /\ sortedKeywords = << >>
    /\ keywordIdx = 1

AuxIdle ==
    /\ callStack = << >>
    /\ fetchLog = << >>
    /\ sim = NoSim
    /\ request = NoRequest
    /\ handlerPc = "none"
    /\ calls = << >>
    /\ responses = << >>
    /\ ExtraIdle

Init ==
    /\ run = 1
    /\ content \in Contents
    /\ firstContent = content
    /\ stemCache = << >>
    /\ \/ pc = "sitemap" /\ web \in Webs /\ sitemapKeywords = << >>
                         /\ keywordsIsMap = TRUE
       \/ pc = "call" /\ web = NoWeb /\ sitemapKeywords \in CallerMaps
                      /\ keywordsIsMap \in BOOLEAN
    /\ Idle
    /\ AuxIdle

(***************************************************************************)
(* processInternalLinks, one action per step of its two loops.             *)
(***************************************************************************)
\* isPositionSafe(start, end) over the occupied spans
isPositionSafe(positions, start, end) ==
    ~\E i \in 1..Len(positions) :
        \/ start >= positions[i].start /\ start <= positions[i].end
        \/ end >= positions[i].start /\ end <= positions[i].end
        \/ start <= positions[i].start /\ end >= positions[i].end

\* line.trim().startsWith('#')
IsHeaderLine(line) == StartsWith(Trim(line), <<"#">>)

\* mutant: the key is looked up as it is spelled in the Map
AlreadyLinkedCaseSensitive(linked, key) == key \in linked

\* linkedKeywords.has(key.toLowerCase())
AlreadyLinked(linked, key) == ToLower(key) \in linked

\* the link text of lines 438-444
MakeLink(isInMarkdown, ph, url) ==
    IF isInMarkdown
    THEN <<"*", "*">> \o MdLink(ph, url) \o <<"*", "*">>
    ELSE MdLink(ph, url)

\* history: the true spans after `oldLen` characters at document offset `at`
\* were replaced by `newLen` characters
ShiftSpans(spans, at, oldLen, newLen) ==
    LET move(x) == IF x >= at + oldLen THEN x + (newLen - oldLen) ELSE x
    IN  [i \in 1..Len(spans) |->
            [start |-> move(spans[i].start), end |-> move(spans[i].end)]]

\* the caller reads the sitemap: readSitemap(sitemapUrl)
ReadSitemap ==
    /\ pc = "sitemap"
    /\ sitemapKeywords' = readSitemap(web, MapUrl)
    /\ pc' = "call"
    /\ UNCHANGED <<run, web, content, firstContent, keywordsIsMap, stemCache,
                   callVars, lineVars, iterVars, result, histVars, auxVars>>

\* lines 316-353: the scan for existing links and the split into lines
Begin ==
    /\ pc = "call"
    /\ keywordsIsMap
    /\ linkPositions' = ExistingLinkSpans(content, 0)
    /\ docSpans' = ExistingLinkSpans(content, 0)
    /\ linkedKeywords' = {}
    /\ addedLinks' = << >>
    /\ stats' = [totalMatches |-> 0, uniqueUrls |-> {}]
    /\ lines' = SplitLines(content)
    /\ lineIdx' = 1
    /\ processedContent' = EmptyStr
    /\ currentPosition' = 0
    /\ acceptedKeys' = << >>
    /\ pc' = "line"
    /\ UNCHANGED <<inputVars, stemCache, lineVars, iterVars, result, auxVars>>

\* lines 317-320: an argument that is no Map throws before any local is set
RejectKeywords ==
    /\ pc = "call"
    /\ ~keywordsIsMap
    /\ pc' = "catch"
    /\ UNCHANGED <<inputVars, stemCache, callVars, lineVars, iterVars, result,
                   histVars, auxVars>>

\* lines 356-362: a header line is copied
SkipHeader ==
    /\ pc = "line"
    /\ lineIdx <= Len(lines)
    /\ IsHeaderLine(lines[lineIdx])
    /\ processedContent' = processedContent \o lines[lineIdx] \o NL
    /\ currentPosition' = currentPosition + Len(lines[lineIdx]) + 1
    /\ lineIdx' = lineIdx + 1
    /\ UNCHANGED <<pc, inputVars, stemCache, linkPositions, linkedKeywords,
                   addedLinks, stats, lines, lineVars, iterVars, result, histVars,
                   auxVars>>

\* lines 364-383: the bold spans and the sorted phrases of a line
PrepareLine ==
    /\ pc = "line"
    /\ lineIdx <= Len(lines)
    /\ ~IsHeaderLine(lines[lineIdx])
    /\ currentLine' = lines[lineIdx]
    /\ lineOffset' = currentPosition
    /\ markdownFormats' = BoldSpans(lines[lineIdx], 0)
    /\ phrases' = SortByLengthDesc(extractPhrasesFromContent(lines[lineIdx]))
    /\ phraseIdx' = 1
    /\ pc' = "phrase"
    /\ UNCHANGED <<inputVars, stemCache, callVars, iterVars, result, histVars,
                   auxVars>>

\* lines 397-401: markdownFormats.some(...)
InMarkdown(formats, phraseIndex, len) ==
    \E i \in 1..Len(formats) :
        /\ phraseIndex >= formats[i].start
        /\ phraseIndex + len <= formats[i].end

\* lines 415-435 for an accepted keyword: pp is the outcome of the
\* single-word test, context the text of getContext
AfterSingleWord(related, pp, context) ==
    [outcome |-> IF pp.skip THEN "partOfPhrase"
                 ELSE IF context = EmptyStr THEN "nocontext"
                 ELSE "inserted",
     match |-> related,
     cache |-> pp.cache]

\* lines 406-435: fr is what findRelatedKeywords returned and left
AfterMatch(fr, line, ph, linked) ==
    IF fr.match = Thrown
    THEN [outcome |-> "threw", match |-> NoKeyword, cache |-> fr.cache]
    ELSE IF ~fr.match.found
    THEN [outcome |-> "nomatch", match |-> fr.match, cache |-> fr.cache]
    ELSE IF ~MeetsThreshold(fr.match.score)
    THEN [outcome |-> "nomatch", match |-> fr.match, cache |-> fr.cache]
    ELSE IF AlreadyLinked(linked, fr.match.key)
    THEN [outcome |-> "duplicate", match |-> fr.match, cache |-> fr.cache]
    ELSE AfterSingleWord(fr.match,
                         IF Includes(ph, SP)
                         THEN [skip |-> FALSE, cache |-> fr.cache]
                         ELSE PartOfPhrase(fr.cache, line, ph, fr.match.key),
                         getContext(line, ph))

\* lines 388-435: the branch an iteration leaves through, the keyword it
\* resolved and the stem cache it leaves
Iteration(ph, phraseIndex) ==
    IF phraseIndex = -1
    THEN [outcome |-> "absent", match |-> NoKeyword, cache |-> stemCache]
    ELSE IF ~isPositionSafe(linkPositions, lineOffset + phraseIndex,
                            lineOffset + phraseIndex + Len(ph))
    THEN [outcome |-> "unsafe", match |-> NoKeyword, cache |-> stemCache]
    ELSE AfterMatch(findRelatedKeywords(stemCache, ph, sitemapKeywords),
                    currentLine, ph, linkedKeywords)

\* lines 446-461: the link replaces the phrase in currentLine
Insert(ph, phraseIndex, related, link, lead) ==
    /\ currentLine' = SubSeq(currentLine, 1, phraseIndex) \o link
                         \o Drop(currentLine, phraseIndex + Len(ph) + 1)
    /\ linkPositions' = Append(linkPositions,
           [start |-> lineOffset + phraseIndex,
            end |-> lineOffset + phraseIndex + Len(link)])
    /\ linkedKeywords' = linkedKeywords \cup {ToLower(related.key)}
    /\ addedLinks' = Append(addedLinks, [keyword |-> ph, url |-> related.url])
    /\ stats' = [totalMatches |-> stats.totalMatches + 1,
                 uniqueUrls |-> stats.uniqueUrls \cup {related.url}]
    /\ acceptedKeys' = Append(acceptedKeys, related.key)
    /\ docSpans' =
         Append(ShiftSpans(docSpans, Len(processedContent) + phraseIndex,
                           Len(ph), Len(link)),
                [start |-> Len(processedContent) + phraseIndex + lead,
                 end |-> Len(processedContent) + phraseIndex + Len(link) - lead])

\* lines 386-463: one iteration of for (const phrase of phrases)
TryPhrase ==
    /\ pc = "phrase"
    /\ phraseIdx <= Len(phrases)
    /\ \E ph \in {phrases[phraseIdx]} :
       \E phraseIndex \in {IndexOf(ToLower(currentLine), ToLower(ph), 1) - 1} :
       \E it \in {Iteration(ph, phraseIndex)} :
       \E isInMarkdown \in {InMarkdown(markdownFormats, phraseIndex, Len(ph))} :
          /\ phrase' = ph
          /\ outcome' = it.outcome
          /\ relatedKeyword' = it.match
          /\ stemCache' = it.cache
          /\ IF it.outcome = "inserted"
             THEN Insert(ph, phraseIndex, it.match,
                         MakeLink(isInMarkdown, ph, it.match.url),
                         IF isInMarkdown THEN 2 ELSE 0)
             ELSE UNCHANGED <<currentLine, linkPositions, linkedKeywords,
                              addedLinks, stats, histVars>>
          /\ pc' = IF it.outcome = "threw" THEN "catch" ELSE "phrase"
    /\ phraseIdx' = phraseIdx + 1
    /\ UNCHANGED <<inputVars, lines, lineIdx, processedContent, currentPosition,
                   lineOffset, markdownFormats, phrases, result, auxVars>>

\* lines 465-466: the rewritten line is appended
EndLine ==
    /\ pc = "phrase"
    /\ phraseIdx > Len(phrases)
    /\ processedContent' = processedContent \o currentLine \o NL
    /\ currentPosition' = currentPosition + Len(lines[lineIdx]) + 1
    /\ lineIdx' = lineIdx + 1
    /\ pc' = "line"
    /\ UNCHANGED <<inputVars, stemCache, linkPositions, linkedKeywords,
                   addedLinks, stats, lines, lineVars, iterVars, result, histVars,
                   auxVars>>

\* mutant: totalMatches is read off the occupied spans, which also hold the
\* links the content came with
ReturnCountingSpans ==
    /\ pc = "line"
    /\ lineIdx > Len(lines)
    /\ result' = [found_links |-> addedLinks,
                  updated_content |-> TrimEnd(processedContent),
                  stats |-> [totalMatches |-> Len(linkPositions),
                             uniqueUrls |-> Cardinality(stats.uniqueUrls)]]
    /\ pc' = "done"
    /\ UNCHANGED <<inputVars, stemCache, callVars, lineVars, iterVars, histVars,
                   auxVars>>

\* lines 469-476: the result, with trimEnd applied to the whole content
Return ==
    /\ pc = "line"
    /\ lineIdx > Len(lines)
    /\ result' = [found_links |-> addedLinks,
                  updated_content |-> TrimEnd(processedContent),
                  stats |-> [totalMatches |-> stats.totalMatches,
                             uniqueUrls |-> Cardinality(stats.uniqueUrls)]]
    /\ pc' = "done"
    /\ UNCHANGED <<inputVars, stemCache, callVars, lineVars, iterVars, histVars,
                   auxVars>>

\* mutant: the catch block returns what had been rewritten so far
CatchPartial ==
    /\ pc = "catch"
    /\ result' = [found_links |-> addedLinks,
                  updated_content |-> TrimEnd(processedContent \o currentLine),
                  stats |-> [totalMatches |-> stats.totalMatches,
                             uniqueUrls |-> Cardinality(stats.uniqueUrls)]]
    /\ pc' = "done"
    /\ UNCHANGED <<inputVars, stemCache, callVars, lineVars, iterVars, histVars,
                   auxVars>>

\* lines 477-484: the catch block returns the content it was given; the
\* lines rewritten so far are dropped, and with them their insertions
Catch ==
    /\ pc = "catch"
    /\ result' = [found_links |-> << >>,
                  updated_content |-> content,
                  stats |-> [totalMatches |-> 0, uniqueUrls |-> 0]]
    /\ docSpans' = ExistingLinkSpans(content, 0)
    /\ acceptedKeys' = << >>
    /\ pc' = "done"
    /\ UNCHANGED <<inputVars, stemCache, callVars, lineVars, iterVars, auxVars>>

\* the caller runs the engine again on its own updated_content, with the
\* same keyword Map
Rerun ==
    /\ pc = "done"
    /\ run = 1
    /\ run' = 2
    /\ content' = result.updated_content
    /\ pc' = "call"
    /\ currentLine' = EmptyStr
    /\ lineOffset' = 0
    /\ markdownFormats' = << >>
    /\ phrases' = << >>
    /\ phraseIdx' = 1
    /\ phrase' = EmptyStr
    /\ relatedKeyword' = NoKeyword
    /\ outcome' = "none"
    /\ UNCHANGED <<web, firstContent, sitemapKeywords, keywordsIsMap, stemCache,
                   callVars, result, histVars, auxVars>>

Next ==
    \/ ReadSitemap
    \/ Begin
    \/ RejectKeywords
    \/ SkipHeader
    \/ PrepareLine
    \/ TryPhrase
    \/ EndLine
    \/ Return
    \/ Catch
    \/ Rerun

Spec == Init /\ [][Next]_vars

(***************************************************************************)
(* readSitemap step by step: one action per fetch and per return of        *)
(* extractUrlsFromSitemap, with the pending calls on callStack.  A frame   *)
(* is [url, doc, pending, urls]: the sitemap URL it was fetched from, the  *)
(* parsed document, the nested sitemaps still to fetch and the Set urls.   *)
(***************************************************************************)
\* the model stops a recursion that is MaxDepth calls deep
MaxDepth == 4

UrlDocsPricing == Site \o <<"d","o","c","s","/">> \o kPricing
UrlPlansSlash == Site \o kPlans \o <<"/">>

SitemapUrls == {MapUrl, MapUrlA, MapUrlB}

\* what a sitemap URL can serve
CrawlDocs ==
    { [kind |-> "error"],
      [kind |-> "urlset", locs |-> <<UrlPricing>>],
      [kind |-> "urlset", locs |-> <<UrlDocsPricing, UrlPricingPlans>>],
      [kind |-> "urlset", locs |-> <<UrlUpper, UrlPlansSlash>>],
      [kind |-> "sitemapindex", locs |-> <<MapUrl>>],
      [kind |-> "sitemapindex", locs |-> <<MapUrlA>>],
      [kind |-> "sitemapindex", locs |-> <<MapUrlB>>],
      [kind |-> "sitemapindex", locs |-> <<MapUrlA, MapUrlB>>] }

CrawlWebs == [SitemapUrls -> CrawlDocs]

\* a call of extractUrlsFromSitemap(doc) for the document fetched from url
Frame(url, doc) ==
    [url |-> url,
     doc |-> doc,
     pending |-> IF doc.kind = "sitemapindex" THEN doc.locs ELSE << >>,
     urls |-> << >>]

\* lines 120-130: what the call returns once its nested sitemaps are done
ReturnedUrls(frame) ==
    IF frame.doc.kind = "urlset"
    THEN AddAll(frame.urls, DropEmpty(frame.doc.locs))
    ELSE frame.urls

InitSitemap ==
    /\ run = 1
    /\ content = EmptyStr
    /\ firstContent = EmptyStr
    /\ stemCache = << >>
    /\ pc = "sitemap"
    /\ web \in CrawlWebs
    /\ sitemapKeywords = << >>
    /\ keywordsIsMap = TRUE
    /\ Idle
    /\ AuxIdle

\* lines 280-282 and 309-312: the fetch of the sitemap URL itself; its
\* failure is caught by readSitemap and gives an empty Map
FetchRoot ==
    /\ pc = "sitemap"
    /\ fetchLog = << >>
    /\ fetchLog' = <<MapUrl>>
    /\ IF fetchAndParseSitemap(web, MapUrl).ok
       THEN /\ callStack' = <<Frame(MapUrl, fetchAndParseSitemap(web, MapUrl).doc)>>
            /\ pc' = "crawl"
            /\ UNCHANGED sitemapKeywords
       ELSE /\ callStack' = << >>
            /\ sitemapKeywords' = << >>
            /\ pc' = "call"
    /\ UNCHANGED <<run, web, content, firstContent, keywordsIsMap, stemCache,
                   callVars, lineVars, iterVars, result, histVars, sim,
                   handlerVars, extraVars>>

\* lines 111-115: the fetch of the next nested sitemap and the recursive
\* call on it; the exception of a failed fetch unwinds every pending call
FetchNested ==
    /\ pc = "crawl"
    /\ callStack # << >>
    /\ callStack[Len(callStack)].pending # << >>
    /\ Len(callStack) < MaxDepth
    /\ \E nestedUrl \in {Head(callStack[Len(callStack)].pending)} :
          /\ fetchLog' = Append(fetchLog, nestedUrl)
          /\ IF fetchAndParseSitemap(web, nestedUrl).ok
             THEN /\ callStack' = Append(callStack,
                         Frame(nestedUrl, fetchAndParseSitemap(web, nestedUrl).doc))
                  /\ UNCHANGED <<pc, sitemapKeywords>>
             ELSE /\ callStack' = << >>
                  /\ sitemapKeywords' = << >>
                  /\ pc' = "call"
    /\ UNCHANGED <<run, web, content, firstContent, keywordsIsMap, stemCache,
                   callVars, lineVars, iterVars, result, histVars, sim,
                   handlerVars, extraVars>>

\* lines 115-116 and 130: a nested call returns and its urls are added to
\* the Set of the calling frame
ReturnNested ==
    /\ pc = "crawl"
    /\ Len(callStack) > 1
    /\ callStack[Len(callStack)].pending = << >>
    /\ \E n \in {Len(callStack)} :
          callStack' =
              [SubSeq(callStack, 1, n - 1) EXCEPT ![n - 1] =
                  [@ EXCEPT !.pending = Tail(@),
                            !.urls = AddAll(@, ReturnedUrls(callStack[n]))]]
    /\ UNCHANGED <<pc, inputVars, stemCache, callVars, lineVars, iterVars, result,
                   histVars, fetchLog, sim, handlerVars, extraVars>>

\* lines 284-308: the outermost call has returned and the Map is built
BuildMap ==
    /\ pc = "crawl"
    /\ Len(callStack) = 1
    /\ callStack[1].pending = << >>
    /\ sitemapKeywords' = KeywordsOfUrls(<< >>, ReturnedUrls(callStack[1]))
    /\ pc' = "call"
    /\ UNCHANGED <<run, web, content, firstContent, keywordsIsMap, stemCache,
                   callVars, lineVars, iterVars, result, histVars, auxVars>>

NextSitemap ==
    \/ FetchRoot
    \/ FetchNested
    \/ ReturnNested
    \/ BuildMap

SpecSitemap == InitSitemap /\ [][NextSitemap]_vars

(***************************************************************************)
(* calculateSemanticSimilarity on its own: a call on two strings with the  *)
(* stem cache earlier calls have left, then the call with the arguments    *)
(* swapped.                                                                *)
(***************************************************************************)
SimStrings ==
    { EmptyStr,
      <<"!">>,
      <<".", " ", "?">>,
      wPricing,
      wPrices,
      kPlans,
      wPlans \o SP \o wPricing,
      kPricing \o <<"-">> \o kPlans,
      wOur \o SP \o kPlans }

\* the stem cache before any call, and after calls that stemmed two words
SimCaches == { << >>, CacheAfter(<< >>, {kPricing, kPlans}) }

InitSimilarity ==
    /\ run = 1
    /\ content = EmptyStr
    /\ firstContent = EmptyStr
    /\ stemCache \in SimCaches
    /\ pc = "similarity"
    /\ web = NoWeb
    /\ sitemapKeywords = << >>
    /\ keywordsIsMap = TRUE
    /\ Idle
    /\ callStack = << >>
    /\ fetchLog = << >>
    /\ \E a \in SimStrings, b \in SimStrings :
          sim = [a |-> a, b |-> b, state |-> "ready"]
    /\ request = NoRequest
    /\ handlerPc = "none"
    /\ calls = << >>
    /\ responses = << >>
    /\ ExtraIdle

\* lines 188-206: calculateSemanticSimilarity(a, b)
CallSimilarity ==
    /\ sim.state = "ready"
    /\ sim' = [a |-> sim.a, b |-> sim.b, state |-> "called",
               score |-> calculateSemanticSimilarity(stemCache, sim.a, sim.b)]
    /\ stemCache' = CacheAfter(stemCache, SimilarityWords(sim.a, sim.b))
    /\ UNCHANGED <<pc, inputVars, callVars, lineVars, iterVars, result, histVars,
                   crawlVars, handlerVars, extraVars>>

\* lines 188-206: calculateSemanticSimilarity(b, a), on the cache the first
\* call left
CallSwapped ==
    /\ sim.state = "called"
    /\ sim' = [a |-> sim.a, b |-> sim.b, state |-> "swapped",
               score |-> sim.score,
               swapped |-> calculateSemanticSimilarity(stemCache, sim.b, sim.a)]
    /\ stemCache' = CacheAfter(stemCache, SimilarityWords(sim.b, sim.a))
    /\ UNCHANGED <<pc, inputVars, callVars, lineVars, iterVars, result, histVars,
                   crawlVars, handlerVars, extraVars>>

NextSimilarity ==
    \/ CallSimilarity
    \/ CallSwapped

SpecSimilarity == InitSimilarity /\ [][NextSimilarity]_vars

(***************************************************************************)
(* The two HTTP handlers: the Netlify function exports.handler and the     *)
(* route POST.  A handler runs to its first await in one step; readSitemap *)
(* and processInternalLinks are calls that return later.                   *)
(***************************************************************************)
Methods == {"POST", "GET", "OPTIONS"}
ContentTypes == {"application/json", "text/plain"}
\* a field of the parsed body: absent, '' or a non-empty string
FieldKinds == {"missing", "empty", "text"}

\* the body of the request: none, text that is not JSON, the JSON value
\* null, or a JSON object
Bodies ==
    { [kind |-> k] : k \in {"absent", "unparsable", "null"} }
    \cup { [kind |-> "object", content |-> c, sitemapUrl |-> u] :
              c \in FieldKinds, u \in FieldKinds }

\* the route exports POST only; the Netlify function is called for any method
Requests ==
    { [handler |-> "netlify", method |-> m, contentType |-> t, body |-> b] :
          m \in Methods, t \in ContentTypes, b \in Bodies }
    \cup { [handler |-> "next", method |-> "POST", contentType |-> t, body |-> b] :
              t \in ContentTypes, b \in Bodies }

\* JSON.parse(event.body): JSON.parse(null) reads the text "null"
NetlifyParsed(body) ==
    IF body.kind = "unparsable" THEN "SyntaxError"
    ELSE IF body.kind \in {"absent", "null"} THEN "null"
    ELSE "object"

\* await request.json(): an empty body is not JSON
NextParsed(body) ==
    IF body.kind \in {"unparsable", "absent"} THEN "SyntaxError"
    ELSE IF body.kind = "null" THEN "null"
    ELSE "object"

\* !content || !sitemapUrl
FieldsMissing(body) == body.content # "text" \/ body.sitemapUrl # "text"

Respond(status) ==
    /\ responses' = Append(responses, status)
    /\ handlerPc' = "done"

\* what the handlers leave alone
handlerFrame == <<pc, inputVars, stemCache, callVars, lineVars, iterVars, result,
                  histVars, crawlVars, sim, extraVars>>

InitHandler ==
    /\ run = 1
    /\ content = EmptyStr
    /\ firstContent = EmptyStr
    /\ stemCache = << >>
    /\ pc = "handler"
    /\ web = NoWeb
    /\ sitemapKeywords = << >>
    /\ keywordsIsMap = TRUE
    /\ Idle
    /\ callStack = << >>
    /\ fetchLog = << >>
    /\ sim = NoSim
    /\ request \in Requests
    /\ handlerPc = "start"
    /\ calls = << >>
    /\ responses = << >>
    /\ ExtraIdle

\* part_000 lines 13-18
NetlifyOptions ==
    /\ request.handler = "netlify"
    /\ handlerPc = "start"
    /\ request.method = "OPTIONS"
    /\ Respond(204)
    /\ UNCHANGED <<request, calls, handlerFrame>>

\* part_000 lines 21-27
NetlifyNotPost ==
    /\ request.handler = "netlify"
    /\ handlerPc = "start"
    /\ request.method \notin {"OPTIONS", "POST"}
    /\ Respond(405)
    /\ UNCHANGED <<request, calls, handlerFrame>>

\* part_000 lines 29-43 and 53-63: parse, destructure, validate, call
\* readSitemap; an exception of line 31 is caught by the catch of line 53
NetlifyPost ==
    /\ request.handler = "netlify"
    /\ handlerPc = "start"
    /\ request.method = "POST"
    /\ IF NetlifyParsed(request.body) \in {"SyntaxError", "null"}
         THEN Respond(500) /\ UNCHANGED calls
       ELSE IF FieldsMissing(request.body)
         THEN Respond(400) /\ UNCHANGED calls
       ELSE /\ calls' = Append(calls, "readSitemap")
            /\ handlerPc' = "readSitemap"
            /\ UNCHANGED responses
    /\ UNCHANGED <<request, handlerFrame>>

\* route.ts lines 25-60 and 99-115: content type, request.json(),
\* destructure, validate, call readSitemap; an exception of lines 39-40 is
\* caught by the outer catch
NextPost ==
    /\ request.handler = "next"
    /\ handlerPc = "start"
    /\ IF request.contentType # "application/json"
         THEN Respond(400) /\ UNCHANGED calls
       ELSE IF NextParsed(request.body) \in {"SyntaxError", "null"}
         THEN Respond(400) /\ UNCHANGED calls
       ELSE IF FieldsMissing(request.body)
         THEN Respond(400) /\ UNCHANGED calls
       ELSE /\ calls' = Append(calls, "readSitemap")
            /\ handlerPc' = "readSitemap"
            /\ UNCHANGED responses
    /\ UNCHANGED <<request, handlerFrame>>

\* readSitemap returns its Map, and the handler calls processInternalLinks
\* (part_000 lines 43-46, route.ts lines 60-67; a Map is never falsy)
ReadSitemapReturns ==
    /\ handlerPc = "readSitemap"
    /\ calls' = calls \o <<"readSitemap returned", "processInternalLinks">>
    /\ handlerPc' = "processInternalLinks"
    /\ UNCHANGED <<request, responses, handlerFrame>>

\* readSitemap rejects (the readSitemap of lines 684-714 has no try), and
\* the catch answers (part_000 lines 53-63, route.ts lines 79-98)
ReadSitemapThrows ==
    /\ handlerPc = "readSitemap"
    /\ calls' = Append(calls, "readSitemap threw")
    /\ Respond(500)
    /\ UNCHANGED <<request, handlerFrame>>

\* processInternalLinks returns (it catches everything), and the handler
\* answers (part_000 lines 48-52, route.ts lines 70-78)
ProcessReturns ==
    /\ handlerPc = "processInternalLinks"
    /\ calls' = Append(calls, "processInternalLinks returned")
    /\ Respond(200)
    /\ UNCHANGED <<request, handlerFrame>>

NextHandler ==
    \/ NetlifyOptions
    \/ NetlifyNotPost
    \/ NetlifyPost
    \/ NextPost
    \/ ReadSitemapReturns
    \/ ReadSitemapThrows
    \/ ProcessReturns

SpecHandler == InitHandler /\ [][NextHandler]_vars

(***************************************************************************)
(* findRelatedKeywords on its own: a call on a phrase and a keyword Map,   *)
(* with the stem cache earlier calls have left.                            *)
(***************************************************************************)
kPrices == <<"p","r","i","c","e","s">>

\* entries of a keyword Map: two flagged single-word, three not
MatchEntries ==
    { [key |-> kPricing,
       meta |-> [url |-> <<"/">> \o kPricing, isSingleWord |-> TRUE]],
      [key |-> kPlans,
       meta |-> [url |-> <<"/">> \o kPlans, isSingleWord |-> TRUE]],
      [key |-> kPrices,
       meta |-> [url |-> <<"/">> \o kPrices, isSingleWord |-> FALSE]],
      [key |-> kPricing \o SP \o kPlans,
       meta |-> [url |-> <<"/", "a">>, isSingleWord |-> FALSE]],
      [key |-> kPlans \o SP \o kPricing,
       meta |-> [url |-> <<"/", "b">>, isSingleWord |-> FALSE]] }

\* the Maps of up to three entries, in every insertion order; a Map has
\* each key once
MatchIndexes ==
    { m \in UNION {[1..n -> MatchEntries] : n \in 0..3} :
        \A i, j \in 1..Len(m) : i # j => m[i].key # m[j].key }

MatchPhrases ==
    { wPricing,
      wPrices,
      wPricing \o SP \o wPlans,
      wPlans \o SP \o wAnd \o SP \o wPricing,
      wOur \o SP \o kPlans,
      <<"!">> }

InitMatch ==
    /\ run = 1
    /\ content = EmptyStr
    /\ firstContent = EmptyStr
    /\ web = NoWeb
    /\ keywordsIsMap = TRUE
    /\ pc = "find"
    /\ phrase \in MatchPhrases
    /\ sitemapKeywords \in MatchIndexes
    /\ stemCache \in SimCaches
    /\ relatedKeyword = NoKeyword
    /\ linkPositions = << >>
    /\ linkedKeywords = {}
    /\ addedLinks = << >>
    /\ stats = [totalMatches |-> 0, uniqueUrls |-> {}]
    /\ lines = << >>
    /\ lineIdx = 1
    /\ processedContent = EmptyStr
    /\ currentPosition = 0
    /\ currentLine = EmptyStr
    /\ lineOffset = 0
    /\ markdownFormats = << >>
    /\ phrases = << >>
    /\ phraseIdx = 1
    /\ outcome = "none"
    /\ result = NoResult
    /\ docSpans = << >>
    /\ acceptedKeys = << >>
    /\ AuxIdle

\* lines 208-256: findRelatedKeywords(phrase, sitemapKeywords)
FindRelated ==
    /\ pc = "find"
    /\ \E fr \in {findRelatedKeywords(stemCache, phrase, sitemapKeywords)} :
          /\ relatedKeyword' = fr.match
          /\ stemCache' = fr.cache
    /\ pc' = "found"
    /\ UNCHANGED <<inputVars, callVars, lineVars, phrase, outcome, result,
                   histVars, auxVars>>

NextMatch == FindRelated

SpecMatch == InitMatch /\ [][NextMatch]_vars

(***************************************************************************)
(* isPositionSafe on its own: a candidate span against the occupied spans  *)
(* of linkPositions.                                                       *)
(***************************************************************************)
MaxOffset == 4

\* the spans [start, end) of at least one character up to MaxOffset
SpanSamples ==
    { sp \in [start : 0..(MaxOffset - 1), end : 1..MaxOffset] : sp.start < sp.end }

InitSpans ==
    /\ run = 1
    /\ content = EmptyStr
    /\ firstContent = EmptyStr
    /\ web = NoWeb
    /\ keywordsIsMap = TRUE
    /\ sitemapKeywords = << >>
    /\ stemCache = << >>
    /\ pc = "probe"
    /\ linkPositions \in UNION {[1..n -> SpanSamples] : n \in 0..2}
    /\ linkedKeywords = {}
    /\ addedLinks = << >>
    /\ stats = [totalMatches |-> 0, uniqueUrls |-> {}]
    /\ lines = << >>
    /\ lineIdx = 1
    /\ processedContent = EmptyStr
    /\ currentPosition = 0
    /\ currentLine = EmptyStr
    /\ lineOffset = 0
    /\ markdownFormats = << >>
    /\ phrases = << >>
    /\ phraseIdx = 1
    /\ phrase = EmptyStr
    /\ relatedKeyword = NoKeyword
    /\ outcome = "none"
    /\ result = NoResult
    /\ docSpans = << >>
    /\ acceptedKeys = << >>
    /\ callStack = << >>
    /\ fetchLog = << >>
    /\ sim = NoSim
    /\ request = NoRequest
    /\ handlerPc = "none"
    /\ calls = << >>
    /\ responses = << >>
    /\ requests = << >>
    /\ \E c \in SpanSamples :
          probe = [state |-> "asked", start |-> c.start, end |-> c.end]
    /\ sortedKeywords = << >>
    /\ keywordIdx = 1

\* lines 342-348: isPositionSafe(start, end)
CallIsPositionSafe ==
    /\ probe.state = "asked"
    /\ probe' = [state |-> "answered", start |-> probe.start, end |-> probe.end,
                 safe |-> isPositionSafe(linkPositions, probe.start, probe.end)]
    /\ UNCHANGED <<pc, inputVars, stemCache, callVars, lineVars, iterVars, result,
                   histVars, crawlVars, sim, handlerVars, requests,
                   sortedKeywords, keywordIdx>>

NextSpans == CallIsPositionSafe

SpecSpans == InitSpans /\ [][NextSpans]_vars

(***************************************************************************)
(* extractPhrasesFromContent on its own: a call on a text built from a few *)
(* pieces.                                                                 *)
(***************************************************************************)
MaxPieces == 3

Pieces ==
    { wPricing,
      kPlans,
      <<"a">>,
      <<"4", "2">>,
      wPlans \o <<".">>,
      <<"d","o","c","s","/","a","p","i">>,
      <<"*", "*">> \o wPricing \o <<"*", "*">>,
      MdLink(wPlans, OldUrl),
      MdLink(wPricing \o SP \o wPlans, UrlPlans),
      EmptyStr }

\* the pieces joined by single spaces (an empty piece gives two spaces)
PhraseContents ==
    {Join(ps, SP) : ps \in UNION {[1..n -> Pieces] : n \in 1..MaxPieces}}

InitPhrases ==
    /\ run = 1
    /\ content \in PhraseContents
    /\ firstContent = content
    /\ web = NoWeb
    /\ keywordsIsMap = TRUE
    /\ sitemapKeywords = << >>
    /\ stemCache = << >>
    /\ pc = "extract"
    /\ Idle
    /\ AuxIdle

\* lines 133-186: extractPhrasesFromContent(content)
ExtractPhrases ==
    /\ pc = "extract"
    /\ phrases' = extractPhrasesFromContent(content)
    /\ pc' = "extracted"
    /\ UNCHANGED <<inputVars, stemCache, callVars, currentLine, lineOffset,
                   markdownFormats, phraseIdx, iterVars, result, histVars, auxVars>>

NextPhrases == ExtractPhrases

SpecPhrases == InitPhrases /\ [][NextPhrases]_vars

(***************************************************************************)
(* The stem cache under concurrent requests.  cachedStem has no await: a   *)
(* call runs to its end before any other code of the process runs, so the  *)
(* calls of the requests interleave call by call.                          *)
(***************************************************************************)
NumRequests == 2
MaxWords == 2

StemWords == {kPricing, kPrices}

\* the words a request still passes to cachedStem, in order
WordLists == UNION {[1..n -> StemWords] : n \in 0..MaxWords}

InitCache ==
    /\ run = 1
    /\ content = EmptyStr
    /\ firstContent = EmptyStr
    /\ web = NoWeb
    /\ keywordsIsMap = TRUE
    /\ sitemapKeywords = << >>
    /\ stemCache \in SimCaches
    /\ pc = "requests"
    /\ Idle
    /\ callStack = << >>
    /\ fetchLog = << >>
    /\ sim = NoSim
    /\ request = NoRequest
    /\ handlerPc = "none"
    /\ calls = << >>
    /\ responses = << >>
    /\ requests \in [1..NumRequests -> {[pending |-> ws, returned |-> << >>] :
                                           ws \in WordLists}]
    /\ probe = NoProbe
    /\ sortedKeywords = << >>
    /\ keywordIdx = 1

\* lines 74-81: request r calls cachedStem on its next word
CallCachedStem(r) ==
    /\ requests[r].pending # << >>
    /\ \E word \in {Head(requests[r].pending)} :
          /\ requests' = [requests EXCEPT
                 ![r] = [pending |-> Tail(requests[r].pending),
                         returned |-> Append(requests[r].returned,
                                        [word |-> word,
                                         stemmed |-> cachedStem(stemCache, word)])]]
          /\ stemCache' = CacheAfter(stemCache, {word})
    /\ UNCHANGED <<pc, inputVars, callVars, lineVars, iterVars, result, histVars,
                   crawlVars, sim, handlerVars, probe, sortedKeywords, keywordIdx>>

NextCache == \E r \in 1..NumRequests : CallCachedStem(r)

SpecCache == InitCache /\ [][NextCache]_vars

(***************************************************************************)
(* The keyword-scan engine (lines 684-846): processInternalLinks reads the *)
(* sitemap itself and scans every line with one regular expression per     *)
(* keyword, longest keyword first.                                         *)
(***************************************************************************)
kPlan == <<"p","l","a","n">>
UrlPlan == Site \o kPlan
UrlDocsPlan == Site \o <<"d","o","c","s","/">> \o kPlan

ScanWebs ==
    { WebDown,
      (MapUrl :> [kind |-> "urlset", locs |-> <<UrlPlan>>]),
      (MapUrl :> [kind |-> "urlset", locs |-> <<UrlPricingPlans, UrlDocsPlan>>]),
      (MapUrl :> [kind |-> "urlset", locs |-> <<UrlDocsPlan, UrlPricing>>]) }

ScanLines ==
    { wPlans,
      wOur \o SP \o kPlan,
      wPlans \o SP \o wAnd \o SP \o kPlan,
      wPricing \o SP \o wPlans,
      kPricing \o <<"-">> \o kPlans,
      <<"#", " ">> \o kPlan,
      MdLink(kPlan, OldUrl) \o SP \o kPlan,
      EmptyStr }

ScanContents ==
    {Join(ls, NL) : ls \in UNION {[1..n -> ScanLines] : n \in 1..MaxLines}}

\* lines 703-710: urlMap.set only when the key is not there yet
MapSetFirst(m, k, v) ==
    IF \E i \in 1..Len(m) : m[i].key = k THEN m
    ELSE Append(m, [key |-> k, meta |-> v])

\* lines 692-710 for the path segments of one URL, from segment n on
RECURSIVE ScanKeywordsOfSegments(_, _, _, _)
ScanKeywordsOfSegments(urlMap, url, segments, n) ==
    IF n > Len(segments) THEN urlMap
    ELSE ScanKeywordsOfSegments(
             MapSetFirst(urlMap, ToLower(HyphensToSpaces(segments[n])),
                         [url |-> url,
                          isSingleWord |-> ~Includes(segments[n], <<"-">>)]),
             url, segments, n + 1)

\* lines 690-711: the loop over the urls
RECURSIVE ScanKeywordsOfUrls(_, _)
ScanKeywordsOfUrls(urlMap, urls) ==
    IF urls = << >> THEN urlMap
    ELSE ScanKeywordsOfUrls(
             ScanKeywordsOfSegments(urlMap, Head(urls),
                                    Runs(Pathname(Head(urls)).path, {"/"}), 1),
             Tail(urls))

\* lines 684-714: readSitemap without a try: [ok, map], ok = FALSE being
\* the exception of a fetch or of new URL
ScanSitemapOfUrls(ex) ==
    IF ~ex.ok \/ \E i \in 1..Len(ex.urls) : ~Pathname(ex.urls[i]).ok
    THEN [ok |-> FALSE, map |-> << >>]
    ELSE [ok |-> TRUE, map |-> ScanKeywordsOfUrls(<< >>, ex.urls)]

ScanReadSitemap(w, sitemapUrl) ==
    IF ~fetchAndParseSitemap(w, sitemapUrl).ok
    THEN [ok |-> FALSE, map |-> << >>]
    ELSE ScanSitemapOfUrls(
             extractUrlsFromSitemap(w, fetchAndParseSitemap(w, sitemapUrl).doc))

\* lines 766-767: the entries sorted by keyword length, longest first;
\* Array.prototype.sort is stable
SortByKeyLengthDesc(q) ==
    LET before(i) == Cardinality({j \in 1..Len(q) :
                        \/ Len(q[j].key) > Len(q[i].key)
                        \/ Len(q[j].key) = Len(q[i].key) /\ j < i})
    IN  [n \in 1..Len(q) |-> q[CHOOSE i \in 1..Len(q) : before(i) = n - 1]]

\* \b between the characters k and k + 1 of line: a word character on
\* exactly one side
WordBoundary(line, k) ==
    (k >= 1 /\ k <= Len(line) /\ line[k] \in WordChars)
        # (k + 1 >= 1 /\ k + 1 <= Len(line) /\ line[k + 1] \in WordChars)

\* mutant: the pattern of a single-word keyword has the word boundaries
ScanPatternAtWholeWord(line, entry, i) ==
    /\ i + Len(entry.key) - 1 <= Len(line)
    /\ ToLower(SubSeq(line, i, i + Len(entry.key) - 1)) = ToLower(entry.key)
    /\ WordBoundary(line, i - 1)
    /\ WordBoundary(line, i + Len(entry.key) - 1)

\* lines 779-781: keywordRegex matches at position i of line.  With flags
\* gi the keyword is compared case-insensitively; the pattern of a
\* single-word keyword is the bare keyword, the pattern of the others has
\* \b on both sides.
ScanPatternAt(line, entry, i) ==
    /\ i + Len(entry.key) - 1 <= Len(line)
    /\ ToLower(SubSeq(line, i, i + Len(entry.key) - 1)) = ToLower(entry.key)
    /\ \/ entry.meta.isSingleWord
       \/ /\ WordBoundary(line, i - 1)
          /\ WordBoundary(line, i + Len(entry.key) - 1)

\* lines 789-795: a match of a hyphenated keyword next to "-" is skipped;
\* the neighbours are read from content at the offsets of the match
HyphenNextTo(text, matchStart, matchEnd) ==
    \/ matchStart > 0 /\ matchStart <= Len(text) /\ text[matchStart] = "-"
    \/ matchEnd < Len(text) /\ text[matchEnd + 1] = "-"

\* lines 784-823: the position in line (1-based) of the first match of the
\* while loop, from position `from` on, that is not skipped and is safe;
\* 0 when the loop ends without one
RECURSIVE ScanFirstAccepted(_, _, _, _, _, _)
ScanFirstAccepted(line, entry, from, offset, text, positions) ==
    IF {i \in from..Len(line) : ScanPatternAt(line, entry, i)} = {} THEN 0
    ELSE LET i == Min({k \in from..Len(line) : ScanPatternAt(line, entry, k)})
             matchStart == offset + i - 1
             matchEnd == matchStart + Len(entry.key)
         IN  IF ~entry.meta.isSingleWord /\ HyphenNextTo(text, matchStart, matchEnd)
             THEN ScanFirstAccepted(line, entry, i + Len(entry.key), offset,
                                    text, positions)
             ELSE IF isPositionSafe(positions, matchStart, matchEnd) THEN i
             ELSE ScanFirstAccepted(line, entry, i + Len(entry.key), offset,
                                    text, positions)

\* what the keyword scan never touches
scanFrame == <<run, web, content, firstContent, keywordsIsMap, stemCache,
               markdownFormats, phrases, phraseIdx, relatedKeyword, histVars,
               crawlVars, sim, handlerVars, requests, probe>>

InitScan ==
    /\ run = 1
    /\ content \in ScanContents
    /\ firstContent = content
    /\ web \in ScanWebs
    /\ keywordsIsMap = TRUE
    /\ sitemapKeywords = << >>
    /\ stemCache = << >>
    /\ pc = "scan"
    /\ Idle
    /\ AuxIdle

\* lines 718-751: readSitemap, the scan for existing links, the split
ScanBegin ==
    /\ pc = "scan"
    /\ ScanReadSitemap(web, MapUrl).ok
    /\ sitemapKeywords' = ScanReadSitemap(web, MapUrl).map
    /\ linkPositions' = ExistingLinkSpans(content, 0)
    /\ linkedKeywords' = {}
    /\ addedLinks' = << >>
    /\ stats' = [totalMatches |-> 0, uniqueUrls |-> {}]
    /\ lines' = SplitLines(content)
    /\ lineIdx' = 1
    /\ processedContent' = EmptyStr
    /\ currentPosition' = 0
    /\ pc' = "scanLine"
    /\ UNCHANGED <<currentLine, lineOffset, phrase, outcome, result,
                   sortedKeywords, keywordIdx, scanFrame>>

\* lines 718 and 838-845: readSitemap throws and the catch block returns
ScanCatch ==
    /\ pc = "scan"
    /\ ~ScanReadSitemap(web, MapUrl).ok
    /\ result' = [found_links |-> << >>, updated_content |-> content,
                  stats |-> [totalMatches |-> 0, uniqueUrls |-> 0]]
    /\ pc' = "scanned"
    /\ UNCHANGED <<sitemapKeywords, callVars, currentLine, lineOffset, phrase,
                   outcome, sortedKeywords, keywordIdx, scanFrame>>

\* lines 754-760: a header line is copied
ScanSkipHeader ==
    /\ pc = "scanLine"
    /\ lineIdx <= Len(lines)
    /\ IsHeaderLine(lines[lineIdx])
    /\ processedContent' = processedContent \o lines[lineIdx] \o NL
    /\ currentPosition' = currentPosition + Len(lines[lineIdx]) + 1
    /\ lineIdx' = lineIdx + 1
    /\ UNCHANGED <<pc, sitemapKeywords, linkPositions, linkedKeywords, addedLinks,
                   stats, lines, currentLine, lineOffset, phrase, outcome, result,
                   sortedKeywords, keywordIdx, scanFrame>>

\* lines 762-767: the line and the sorted entries
ScanPrepareLine ==
    /\ pc = "scanLine"
    /\ lineIdx <= Len(lines)
    /\ ~IsHeaderLine(lines[lineIdx])
    /\ currentLine' = lines[lineIdx]
    /\ lineOffset' = currentPosition
    /\ sortedKeywords' = SortByKeyLengthDesc(sitemapKeywords)
    /\ keywordIdx' = 1
    /\ pc' = "scanKeyword"
    /\ UNCHANGED <<sitemapKeywords, callVars, phrase, outcome, result, scanFrame>>

\* lines 799-815: the link replaces the match at position `at` of the line
ScanInsert(entry, at, matched) ==
    /\ currentLine' = SubSeq(currentLine, 1, at - 1) \o MdLink(matched, entry.meta.url)
                         \o Drop(currentLine, at + Len(matched))
    /\ linkPositions' = Append(linkPositions,
           [start |-> lineOffset + at - 1,
            end |-> lineOffset + at - 1 + Len(MdLink(matched, entry.meta.url))])
    /\ linkedKeywords' = linkedKeywords \cup {ToLower(entry.key)}
    /\ addedLinks' = Append(addedLinks, [keyword |-> matched, url |-> entry.meta.url])
    /\ stats' = [totalMatches |-> stats.totalMatches + 1,
                 uniqueUrls |-> stats.uniqueUrls \cup {entry.meta.url}]
    /\ phrase' = matched
    /\ outcome' = "inserted"

\* lines 769-824: one iteration of for (const [keyword, metadata] of
\* sortedKeywords)
ScanKeyword ==
    /\ pc = "scanKeyword"
    /\ keywordIdx <= Len(sortedKeywords)
    /\ \E entry \in {sortedKeywords[keywordIdx]} :
       \E at \in {IF ToLower(entry.key) \in linkedKeywords THEN -1
                  ELSE ScanFirstAccepted(currentLine, entry, 1, lineOffset,
                                         content, linkPositions)} :
          IF at > 0
          THEN ScanInsert(entry, at, SubSeq(currentLine, at, at + Len(entry.key) - 1))
          ELSE /\ outcome' = IF at = -1 THEN "duplicate" ELSE "nomatch"
               /\ UNCHANGED <<currentLine, linkPositions, linkedKeywords,
                              addedLinks, stats, phrase>>
    /\ keywordIdx' = keywordIdx + 1
    /\ UNCHANGED <<pc, sitemapKeywords, lines, lineIdx, processedContent,
                   currentPosition, lineOffset, result, sortedKeywords, scanFrame>>

\* lines 826-827: the rewritten line is appended
ScanEndLine ==
    /\ pc = "scanKeyword"
    /\ keywordIdx > Len(sortedKeywords)
    /\ processedContent' = processedContent \o currentLine \o NL
    /\ currentPosition' = currentPosition + Len(lines[lineIdx]) + 1
    /\ lineIdx' = lineIdx + 1
    /\ pc' = "scanLine"
    /\ UNCHANGED <<sitemapKeywords, linkPositions, linkedKeywords, addedLinks,
                   stats, lines, currentLine, lineOffset, phrase, outcome, result,
                   sortedKeywords, keywordIdx, scanFrame>>

\* lines 830-837: the result
ScanReturn ==
    /\ pc = "scanLine"
    /\ lineIdx > Len(lines)
    /\ result' = [found_links |-> addedLinks,
                  updated_content |-> TrimEnd(processedContent),
                  stats |-> [totalMatches |-> stats.totalMatches,
                             uniqueUrls |-> Cardinality(stats.uniqueUrls)]]
    /\ pc' = "scanned"
    /\ UNCHANGED <<sitemapKeywords, callVars, currentLine, lineOffset, phrase,
                   outcome, sortedKeywords, keywordIdx, scanFrame>>

NextScan ==
    \/ ScanBegin
    \/ ScanCatch
    \/ ScanSkipHeader
    \/ ScanPrepareLine
    \/ ScanKeyword
    \/ ScanEndLine
    \/ ScanReturn

SpecScan == InitScan /\ [][NextScan]_vars

(***************************************************************************)
(* Properties.                                                             *)
(***************************************************************************)
Done == pc = "done"

\* the keyword Map came out of readSitemap
FromSitemap == web # NoWeb /\ pc # "sitemap"

\* the text of the i-th link found by linkRegex in s, and its label
LinkTexts(s) ==
    LET sp == ExistingLinkSpans(s, 0)
    IN  [i \in 1..Len(sp) |-> SubSeq(s, sp[i].start + 1, sp[i].end)]

LabelOf(linkText) ==
    SubSeq(linkText, 2, IndexOf(linkText, <<"]">>, 2) - 1)

\* how many links of s carry the label `key`, compared case-insensitively
LinksLabelled(s, key) ==
    LET texts == LinkTexts(s)
    IN  Cardinality({i \in 1..Len(texts) : ToLower(LabelOf(texts[i])) = ToLower(key)})

\* C1: a second run of processInternalLinks on the updated_content of a
\* first run, with the same keyword map, inserts nothing: found_links is
\* empty, totalMatches is 0 and updated_content equals its input.
C1_Idempotent ==
    (Done /\ run = 2) =>
        /\ result.found_links = << >>
        /\ result.stats.totalMatches = 0
        /\ result.updated_content = content

\* C2: in the returned updated_content the spans of all markdown links
\* (those of the input and the inserted ones) are pairwise disjoint.
C2_NoOverlap ==
    Done =>
        \A i, j \in 1..Len(docSpans) :
            i < j => \/ docSpans[i].end <= docSpans[j].start
                     \/ docSpans[j].end <= docSpans[i].start

\* C3: every markdown link of the input stands in updated_content with
\* exactly the same characters, contiguous.
C3_ExistingLinksUntouched ==
    Done =>
        LET before == ExistingLinkSpans(content, 0)
        IN  \A i \in 1..Len(before) :
                /\ docSpans[i].end - docSpans[i].start
                      = before[i].end - before[i].start
                /\ docSpans[i].end <= Len(result.updated_content)
                /\ SubSeq(result.updated_content, docSpans[i].start + 1, docSpans[i].end)
                      = SubSeq(content, before[i].start + 1, before[i].end)

\* C4: every line whose trimmed form starts with '#' is byte-identical in
\* updated_content, at the same line index.
C4_HeadersPreserved ==
    Done =>
        LET out == SplitLines(result.updated_content)
        IN  \A i \in 1..Len(lines) :
                IsHeaderLine(lines[i]) => i <= Len(out) /\ out[i] = lines[i]

\* C5: for every keyword of the index that labels at most one existing
\* link of the input, at most one link of updated_content carries that
\* label (case-insensitively).
C5_AtMostOnePerKeyword ==
    Done =>
        \A k \in 1..Len(sitemapKeywords) :
            LinksLabelled(content, sitemapKeywords[k].key) <= 1
                => LinksLabelled(result.updated_content, sitemapKeywords[k].key) <= 1

\* C6: within one call, no two accepted insertions are matched to the same
\* keyword key (compared case-insensitively), over all lines of the content.
C6_OneInsertionPerKey ==
    \A i, j \in 1..Len(acceptedKeys) :
        i # j => ToLower(acceptedKeys[i]) # ToLower(acceptedKeys[j])

\* C6 witness: on a later line, still as in the input, a phrase resolved to
\* a key that an earlier line had linked, and was turned down for it.
C6_Witness ==
    /\ outcome = "duplicate"
    /\ pc = "phrase"
    /\ lineIdx >= 2
    /\ currentLine = lines[lineIdx]
    /\ ToLower(relatedKeyword.key) \in {ToLower(acceptedKeys[i]) : i \in 1..Len(acceptedKeys)}

\* the entry of the keyword Map under `key` carries isSingleWord = true
FlaggedSingle(key) ==
    \E i \in 1..Len(sitemapKeywords) :
        /\ sitemapKeywords[i].key = key
        /\ "isSingleWord" \in DOMAIN sitemapKeywords[i].meta
        /\ sitemapKeywords[i].meta.isSingleWord

\* C7: findRelatedKeywords returns an entry flagged isSingleWord only for
\* a phrase whose lower-cased form equals the keyword, and with score 1.
C7_SingleWordExact ==
    (relatedKeyword.found /\ FlaggedSingle(relatedKeyword.key)) =>
        /\ ToLower(phrase) = relatedKeyword.key
        /\ relatedKeyword.score = Score(1, 1)

\* C7 witness: a phrase with the same stem as a flagged keyword, but not
\* equal to it, got no match.
C7_Witness ==
    /\ outcome = "nomatch"
    /\ ~relatedKeyword.found
    /\ \E i \in 1..Len(sitemapKeywords) :
          /\ FlaggedSingle(sitemapKeywords[i].key)
          /\ ToLower(phrase) # sitemapKeywords[i].key
          /\ stem(ToLower(phrase)) = stem(sitemapKeywords[i].key)

\* C8: every entry of the Map returned by readSitemap reads isSingleWord =
\* true when its path segment has no hyphen and false when it has one.
C8_IndexFlags ==
    FromSitemap =>
        \A i \in 1..Len(sitemapKeywords) :
            LET metadata == sitemapKeywords[i].meta
                segment == LastSegment(Pathname(metadata.url).path)
            IN  IsSingleWordOf(metadata) = ~Includes(segment, <<"-">>)

\* the content is one non-header line without links in which `key` occurs
\* exactly once as a whole word, in any letter case
OneBareOccurrence(text, key) ==
    LET toks == Tokenize(text)
    IN  /\ ~Includes(text, NL)
        /\ ~IsHeaderLine(text)
        /\ ExistingLinkSpans(text, 0) = << >>
        /\ Cardinality({i \in 1..Len(toks) : ToLower(toks[i]) = key}) = 1

\* C9: with a Map of one single-word entry and a content of one line that
\* holds the keyword once, the result links it exactly once, with
\* totalMatches = 1 and uniqueUrls = 1.
C9_ScenarioA ==
    (/\ Done
     /\ run = 1
     /\ keywordsIsMap
     /\ Len(sitemapKeywords) = 1
     /\ FlaggedSingle(sitemapKeywords[1].key)
     /\ OneBareOccurrence(content, sitemapKeywords[1].key)) =>
        /\ LinksLabelled(result.updated_content, sitemapKeywords[1].key) = 1
        /\ result.stats = [totalMatches |-> 1, uniqueUrls |-> 1]

\* C10: when the sitemap fetch fails, readSitemap returns an empty Map and
\* processInternalLinks returns no link, zero stats and the input content
\* character for character.
C10_DegradeToEmpty ==
    (Done /\ run = 1 /\ web = WebDown) =>
        /\ sitemapKeywords = << >>
        /\ result.found_links = << >>
        /\ result.stats = [totalMatches |-> 0, uniqueUrls |-> 0]
        /\ result.updated_content = content

\* the call left through the catch block
Threw == ~keywordsIsMap \/ outcome = "threw"

\* the object the catch block returns for the content it was given
EmptyResult(text) ==
    [found_links |-> << >>, updated_content |-> text,
     stats |-> [totalMatches |-> 0, uniqueUrls |-> 0]]

\* C12: a call of processInternalLinks that runs into an error (an argument
\* that is no Map, or an exception while a phrase is matched) ends with a
\* result, and that result has no link record, zero stats and the content
\* it was given, whatever had been inserted before the error.
C12_AllOrNothing ==
    /\ (Done /\ Threw) => result = EmptyResult(content)
    /\ pc = "catch" => Threw

\* C12 witness: the error came after a link had been inserted on an
\* earlier line, and the result carries neither the link nor its record.
C12_Witness ==
    /\ Done
    /\ outcome = "threw"
    /\ addedLinks # << >>
    /\ processedContent # EmptyStr
    /\ result = EmptyResult(content)

\* the number of "*" characters of a line
StarCount(s) == Cardinality({i \in 1..Len(s) : s[i] = "*"})

\* C15: when a phrase that lies inside a bold span of its line is linked,
\* the line becomes the old line with the phrase replaced by [phrase](url),
\* and it holds as many bold markers as before.
C15_BoldPreserved ==
    [][ LET at == IndexOf(ToLower(currentLine), ToLower(phrase'), 1) - 1
        IN  (/\ pc = "phrase"
             /\ pc' = "phrase"
             /\ phraseIdx' = phraseIdx + 1
             /\ outcome' = "inserted"
             /\ InMarkdown(markdownFormats, at, Len(phrase')))
            => /\ currentLine' = SubSeq(currentLine, 1, at)
                                    \o MdLink(phrase', relatedKeyword'.url)
                                    \o Drop(currentLine, at + Len(phrase') + 1)
               /\ StarCount(currentLine') = StarCount(currentLine) ]_vars

\* the url the keyword Map holds under `key`
UrlsOfKey(key) ==
    {sitemapKeywords[k].meta.url :
        k \in {j \in 1..Len(sitemapKeywords) : sitemapKeywords[j].key = key}}

\* C18: in every result totalMatches is the number of records of
\* found_links, uniqueUrls is the number of distinct urls among them, and
\* found_links holds one record per accepted insertion, in insertion order,
\* with the url of the keyword the insertion resolved to.
C18_StatsConsistent ==
    Done =>
        LET links == result.found_links
            urls == {links[i].url : i \in 1..Len(links)}
        IN  /\ result.stats.totalMatches = Len(links)
            /\ result.stats.uniqueUrls = Cardinality(urls)
            /\ 0 <= result.stats.uniqueUrls
            /\ result.stats.uniqueUrls <= result.stats.totalMatches
            /\ Len(links) = Len(acceptedKeys)
            /\ \A i \in 1..Len(links) : links[i].url \in UrlsOfKey(acceptedKeys[i])

\* C18 witness: a result with two records and two distinct urls, for a
\* content that came with a link of its own.
C18_Witness ==
    /\ Done
    /\ Len(result.found_links) = 2
    /\ result.stats = [totalMatches |-> 2, uniqueUrls |-> 2]
    /\ ExistingLinkSpans(content, 0) # << >>

\* readSitemap has returned a Map built from the urls it collected
CrawlReturned == pc = "call" /\ callStack # << >>

\* the urls of the Set that extractUrlsFromSitemap returned, in order
Collected == ReturnedUrls(callStack[1])

\* C11: readSitemap terminates on every sitemap, also on a sitemap index
\* that lists itself or is part of a cycle of indexes: no sitemap URL is
\* fetched again while the call on the document it served is still pending
\* (a fetch that would then repeat without end).
C11_NoRefetchOnChain ==
    \A i, j \in 1..Len(callStack) :
        i < j => callStack[i].url # callStack[j].url

\* the keys readSitemap stores for one url
KeysOfUrl(url) ==
    {KeywordsOfUrl(<< >>, url)[i].key : i \in 1..Len(KeywordsOfUrl(<< >>, url))}

\* the collected urls that yield `key`, as positions in collection order
SourcesOf(key) == {n \in 1..Len(Collected) : key \in KeysOfUrl(Collected[n])}

\* C13: every key of the Map returned by readSitemap is mapped to the first
\* url, in collection order, that yields the key.
C13_FirstUrlWins ==
    CrawlReturned =>
        \A i \in 1..Len(sitemapKeywords) :
            sitemapKeywords[i].meta.url
                = Collected[Min(SourcesOf(sitemapKeywords[i].key))]

\* the final non-empty segment of a path, '' when it has none
FinalSegment(path) ==
    IF Runs(path, {"/"}) = << >> THEN EmptyStr
    ELSE Runs(path, {"/"})[Len(Runs(path, {"/"}))]

\* C14: for every collected url whose path has a non-empty segment the Map
\* returned by readSitemap has the key made of the final non-empty segment
\* with hyphens turned into spaces and letters lower-cased, mapped to a url
\* with that segment; and every key of the Map is lower-case.
C14_KeywordDerivation ==
    CrawlReturned =>
        /\ \A n \in 1..Len(Collected) :
              LET segment == FinalSegment(Pathname(Collected[n]).path)
              IN  segment # EmptyStr =>
                    \E i \in 1..Len(sitemapKeywords) :
                        /\ sitemapKeywords[i].key = ToLower(HyphensToSpaces(segment))
                        /\ FinalSegment(Pathname(sitemapKeywords[i].meta.url).path)
                              = segment
        /\ \A i \in 1..Len(sitemapKeywords) :
              sitemapKeywords[i].key = ToLower(sitemapKeywords[i].key)

\* a sequence back to front
Reverse(q) == [i \in 1..Len(q) |-> q[Len(q) + 1 - i]]

\* the web whose sitemap indexes list their nested sitemaps in the
\* opposite order
ReversedWeb ==
    [u \in DOMAIN web |->
        IF web[u].kind = "sitemapindex"
        THEN [web[u] EXCEPT !.locs = Reverse(@)]
        ELSE web[u]]

\* a Map as the set of its <<key, url>> pairs, and its keys
KeyUrlPairs(m) == {<<m[i].key, m[i].meta.url>> : i \in 1..Len(m)}
KeysOf(m) == {m[i].key : i \in 1..Len(m)}

\* C20 as stated: the Map returned by readSitemap (keys and the url of each
\* key) is the same when the nested sitemaps are merged in the opposite
\* order.
C20_MergeOrderIndependent ==
    CrawlReturned =>
        KeyUrlPairs(sitemapKeywords)
            = KeyUrlPairs(readSitemap(ReversedWeb, MapUrl))

\* C20 amended: the keys of the Map returned by readSitemap are the same
\* for both merge orders, and so is the url of every key that a single
\* collected url yields; the url of a key that several urls yield depends
\* on the order.
C20_KeysOrderIndependent ==
    CrawlReturned =>
        /\ KeysOf(sitemapKeywords) = KeysOf(readSitemap(ReversedWeb, MapUrl))
        /\ \A i \in 1..Len(sitemapKeywords) :
              Cardinality(SourcesOf(sitemapKeywords[i].key)) = 1 =>
                  <<sitemapKeywords[i].key, sitemapKeywords[i].meta.url>>
                      \in KeyUrlPairs(readSitemap(ReversedWeb, MapUrl))

\* C20 witness: an index whose two nested sitemaps brought different urls,
\* one key among them with a single source.
C20_Witness ==
    /\ CrawlReturned
    /\ web[MapUrl] = [kind |-> "sitemapindex", locs |-> <<MapUrlA, MapUrlB>>]
    /\ web[MapUrlA].kind = "urlset"
    /\ web[MapUrlB].kind = "urlset"
    /\ web[MapUrlA] # web[MapUrlB]
    /\ \E i \in 1..Len(sitemapKeywords) :
          Cardinality(SourcesOf(sitemapKeywords[i].key)) = 1

\* the stems of the tokens of a string, computed without any cache
StemsOf(text) ==
    {stem(Tokenize(ToLower(text))[i]) : i \in 1..Len(Tokenize(ToLower(text)))}

\* C16: when neither argument has a token, calculateSemanticSimilarity
\* returns the number 0.
C16_EmptyUnionIsZero ==
    (sim.state \in {"called", "swapped"}
        /\ Tokenize(ToLower(sim.a)) = << >> /\ Tokenize(ToLower(sim.b)) = << >>)
    => (sim.score.den # 0 /\ sim.score.num = 0)

\* a = b on two quotients that are numbers
SameNumber(x, y) == x.den # 0 /\ y.den # 0 /\ x.num * y.den = y.num * x.den

\* C17: for two strings with at least one token between them the score is
\* a number of [0, 1], it is 1 exactly when the two stem sets are equal, it
\* is what an empty stem cache gives, and the call with the arguments
\* swapped returns the same number.
C17_SymmetricInRange ==
    (sim.state \in {"called", "swapped"}
        /\ StemsOf(sim.a) \cup StemsOf(sim.b) # {})
    => /\ sim.score.den > 0
       /\ 0 <= sim.score.num
       /\ sim.score.num <= sim.score.den
       /\ (sim.score.num = sim.score.den) <=> (StemsOf(sim.a) = StemsOf(sim.b))
       /\ SameNumber(sim.score, calculateSemanticSimilarity(<< >>, sim.a, sim.b))
       /\ sim.state = "swapped" => SameNumber(sim.score, sim.swapped)

\* C17 witness: both calls made on a populated cache, for two different
\* strings of unequal stem sets that share a stem.
C17_Witness ==
    /\ sim.state = "swapped"
    /\ sim.a # sim.b
    /\ StemsOf(sim.a) # StemsOf(sim.b)
    /\ sim.score.num > 0
    /\ DOMAIN stemCache # {}
    /\ Cardinality(StemsOf(sim.a)) # Cardinality(StemsOf(sim.b))

\* the body has no content or no sitemapUrl: there is no body, it is the
\* JSON value null, or it is an object where one of the two is absent or ''
LacksField(body) ==
    \/ body.kind \in {"absent", "null"}
    \/ body.kind = "object" /\ FieldsMissing(body)

\* C19: in both handlers a POST whose body lacks content or sitemapUrl is
\* answered with status 400, and neither readSitemap nor
\* processInternalLinks has been called.
C19_MissingFieldIs400 ==
    (handlerPc = "done" /\ request.method = "POST" /\ LacksField(request.body))
    => (responses = <<400>> /\ calls = << >>)

\* the rest of C19, as the handlers keep it: with both fields present (and
\* a JSON content type in the route) readSitemap is called and returns
\* before processInternalLinks is called, and a finished handler has
\* answered exactly once, with a status of its list.
C19_OrderAndOneResponse ==
    /\ Len(responses) <= 1
    /\ handlerPc = "done" <=> Len(responses) = 1
    /\ \A i \in 1..Len(responses) :
          responses[i] \in (IF request.handler = "netlify"
                              THEN {200, 204, 400, 405, 500} ELSE {200, 400, 500})
    /\ \A i \in 1..Len(calls) :
          calls[i] = "processInternalLinks"
              => (i = 3 /\ calls[1] = "readSitemap" /\ calls[2] = "readSitemap returned")
    /\ (handlerPc = "done" /\ request.method = "POST" /\ request.body.kind = "object"
            /\ ~FieldsMissing(request.body)
            /\ (request.handler = "next" => request.contentType = "application/json"))
        => (calls # << >> /\ calls[1] = "readSitemap")

\* the document as rewritten so far, while the phrases of a line are tried:
\* the lines already written, the line being rewritten, the lines to come
CurrentDocument ==
    processedContent \o currentLine
        \o Join([k \in 1..(Len(lines) - lineIdx) |-> NL \o lines[lineIdx + k]], EmptyStr)

\* text is one markdown link, alone or between the bold markers added with it
IsOneLink(text) ==
    \/ ExistingLinkSpans(text, 0) = <<[start |-> 0, end |-> Len(text)]>>
    \/ /\ ExistingLinkSpans(text, 0) = <<[start |-> 2, end |-> Len(text) - 2]>>
       /\ SubSeq(text, 1, 2) = <<"*", "*">>

\* C27: while a line is processed, every span of linkPositions covers
\* exactly the characters of one markdown link of the document as
\* rewritten so far.
C27_SpansAligned ==
    pc = "phrase" =>
        \A i \in 1..Len(linkPositions) :
            /\ linkPositions[i].end <= Len(CurrentDocument)
            /\ IsOneLink(SubSeq(CurrentDocument, linkPositions[i].start + 1,
                                linkPositions[i].end))

\* every record of found_links stands in updated_content as [keyword](url)
ReportedLinksPresent ==
    \A i \in 1..Len(result.found_links) :
        Includes(result.updated_content,
                 MdLink(result.found_links[i].keyword, result.found_links[i].url))

\* the links of updated_content that are not links of the input
NewLinks ==
    {i \in 1..Len(LinkTexts(result.updated_content)) :
        LinkTexts(result.updated_content)[i] \notin Range(LinkTexts(content))}

\* C30: in the returned result every record {keyword, url} of found_links
\* stands in updated_content as the exact text [keyword](url), and the
\* number of links of updated_content that the input did not have is
\* totalMatches.
C30_ReportMatchesOutput ==
    Done =>
        /\ ReportedLinksPresent
        /\ Cardinality(NewLinks) = result.stats.totalMatches

\* the text the n-th insertion put in: the link, between bold markers when
\* the recorded span is four characters longer than the link
InsertedText(n) ==
    LET rec == result.found_links[n]
        span == linkPositions[Len(linkPositions) - Len(result.found_links) + n]
        plain == MdLink(rec.keyword, rec.url)
    IN  IF span.end - span.start = Len(plain) + 4
        THEN MakeLink(TRUE, rec.keyword, rec.url)
        ELSE plain

\* text with the last n insertions undone, the latest first: each inserted
\* link is replaced by its label
RECURSIVE Unlinked(_, _)
Unlinked(text, n) ==
    IF n = 0 \/ IndexOf(text, InsertedText(n), 1) = 0 THEN text
    ELSE Unlinked(SubSeq(text, 1, IndexOf(text, InsertedText(n), 1) - 1)
                     \o result.found_links[n].keyword
                     \o Drop(text, IndexOf(text, InsertedText(n), 1)
                                      + Len(InsertedText(n))),
                  n - 1)

\* C29: replacing every inserted link of updated_content (with the bold
\* markers added around it) by its label gives back the input, up to
\* trailing white space.
C29_VisibleTextPreserved ==
    (Done /\ ~Threw) =>
        TrimEnd(Unlinked(result.updated_content, Len(result.found_links)))
            = TrimEnd(content)

\* entry i of the Map is flagged single-word and equals the phrase in lower
\* case
ExactSingle(i) ==
    /\ IsSingleWordOf(sitemapKeywords[i].meta)
    /\ sitemapKeywords[i].key = ToLower(phrase)

\* the entries scored by similarity: not flagged, with at least one token
ScoredEntries ==
    {i \in 1..Len(sitemapKeywords) :
        /\ ~IsSingleWordOf(sitemapKeywords[i].meta)
        /\ Tokenize(sitemapKeywords[i].key) # << >>}

\* the Jaccard score of the phrase and the key of entry i, as [num, den]
EntryJaccard(i) ==
    LET a == StemsOf(phrase)
        b == StemsOf(sitemapKeywords[i].key)
    IN  [num |-> Cardinality(a \cap b), den |-> Cardinality(a \cup b)]

\* x >= y, x > y and x >= 0.8 on quotients with positive denominators
AtLeast(x, y) == x.num * y.den >= y.num * x.den
IsMaximal(i, S) == \A j \in S : AtLeast(EntryJaccard(i), EntryJaccard(j))
Accepted(x) == 5 * x.num >= 4 * x.den

\* the entry a returned match was built from
IsEntry(match, i) ==
    /\ match.found
    /\ match.key = sitemapKeywords[i].key
    /\ match.url = sitemapKeywords[i].meta.url

EntryScore(i) ==
    IF IsSingleWordOf(sitemapKeywords[i].meta)
    THEN IF ExactSingle(i) THEN Score(1, 1) ELSE Score(0, 1)
    ELSE IF i \in ScoredEntries THEN EntryJaccard(i) ELSE Score(0, 1)

\* the first entry, in the iteration order of the Map, among those of S
\* that achieve the maximal score of S
FirstMaximal(S) ==
    Min({i \in S : \A j \in S : AtLeast(EntryScore(i), EntryScore(j))})

\* C23, as stated: when the maximal score over all entries is at least
\* 0.8, the result is the first entry of the Map that achieves it, a
\* flagged entry matched exactly counting with score 1 like any other.
C23_FirstMaximalWins ==
    (pc = "found" /\ Tokenize(ToLower(phrase)) # << >>
        /\ \E i \in 1..Len(sitemapKeywords) : Accepted(EntryScore(i)))
    => IsEntry(relatedKeyword, FirstMaximal(1..Len(sitemapKeywords)))

\* C23, as the loop decides: a flagged entry equal to the phrase is
\* returned wherever it stands in the Map; without one, the result is the
\* first of the scored entries that achieve the maximal score, when that
\* score is at least 0.8.
C23_ExactFirstThenFirstMaximal ==
    (pc = "found" /\ Tokenize(ToLower(phrase)) # << >>) =>
        /\ \A i \in 1..Len(sitemapKeywords) :
              ExactSingle(i) => IsEntry(relatedKeyword, i)
        /\ ((~\E i \in 1..Len(sitemapKeywords) : ExactSingle(i))
               /\ \E i \in ScoredEntries : Accepted(EntryJaccard(i)))
           => IsEntry(relatedKeyword, FirstMaximal(ScoredEntries))

\* C23 witness: two scored entries tie at the maximal score and the first
\* of them is returned, with no flagged entry equal to the phrase.
C23_Witness ==
    /\ pc = "found"
    /\ ~\E i \in 1..Len(sitemapKeywords) : ExactSingle(i)
    /\ \E i, j \in ScoredEntries :
          /\ i < j
          /\ IsEntry(relatedKeyword, i)
          /\ SameNumber(EntryJaccard(i), EntryJaccard(j))

\* [start, end) and the occupied span pos share a character position
SharesPosition(start, end, pos) == start < pos.end /\ pos.start < end

\* C26: isPositionSafe(start, end) is false exactly when [start, end)
\* shares a character position with an occupied span; a candidate that
\* only touches an occupied span is accepted.
C26_HalfOpenOverlap ==
    probe.state = "answered" =>
        (~probe.safe <=>
            \E i \in 1..Len(linkPositions) :
                SharesPosition(probe.start, probe.end, linkPositions[i]))

\* text with every markdown link [text](url) taken out
RECURSIVE WithoutLinks(_)
WithoutLinks(text) ==
    IF LinkMatch(text) = NoMatch THEN text
    ELSE SubSeq(text, 1, LinkMatch(text).start - 1)
            \o WithoutLinks(Drop(text, LinkMatch(text).end + 1))

\* C24: no phrase returned by extractPhrasesFromContent holds a word of the
\* label or the URL of a markdown link of the content: every phrase is a
\* phrase of the content with its links taken out.
C24_LinkTextNeverCandidate ==
    pc = "extracted" =>
        Range(phrases) \subseteq Range(extractPhrasesFromContent(WithoutLinks(content)))

\* C25: every returned phrase is a contiguous substring of the content,
\* made of 1 to 3 white-space separated words with no sentence delimiter
\* between them, and no phrase is returned twice.
C25_PhrasesAreSubstrings ==
    pc = "extracted" =>
        /\ \A i \in 1..Len(phrases) :
              /\ Includes(content, phrases[i])
              /\ Len(Runs(phrases[i], WhiteSpace)) \in 1..3
              /\ \A k \in 1..Len(phrases[i]) : phrases[i][k] \notin SentenceEnd
        /\ \A i, j \in 1..Len(phrases) : phrases[i] = phrases[j] => i = j

\* every entry of the stem cache maps a word to the stem of that word, and
\* every call of cachedStem so far has returned the stem of its word
CacheSound ==
    /\ \A w \in DOMAIN stemCache : stemCache[w] = stem(w)
    /\ \A r \in 1..Len(requests) : \A i \in 1..Len(requests[r].returned) :
          requests[r].returned[i].stemmed = stem(requests[r].returned[i].word)

\* no step removes or changes an entry of the stem cache
CacheAppendOnly ==
    \A w \in DOMAIN stemCache : w \in DOMAIN stemCache' /\ stemCache'[w] = stemCache[w]

\* C21: under every interleaving of the cachedStem calls of concurrent
\* requests the stem cache is append-only, each of its entries maps a word
\* to the stem of that word, and every call cachedStem(w) returns stem(w).
C21_StemCacheSafe == [](CacheSound) /\ [][CacheAppendOnly]_vars

\* C21 witness: two requests have interleaved, the first call on a word
\* that was not cached came from one request and a later call on the same
\* word from the other, which still has a call to make.
C21_Witness ==
    /\ Len(requests) >= 2
    /\ \E r, q \in 1..Len(requests) : \E w \in StemWords :
          /\ r # q
          /\ requests[r].pending # << >>
          /\ Len(requests[r].returned) >= 1
          /\ requests[r].returned[1].word = w
          /\ Len(requests[q].returned) = 2
          /\ requests[q].returned[2].word = w
          /\ requests[q].returned[1].word # w
          /\ w \in DOMAIN stemCache
          /\ w \notin DOMAIN CacheAfter(<< >>, {kPricing, kPlans})

\* the line position (1-based) where the last insertion put its link
LastInsertedAt == linkPositions[Len(linkPositions)].start - lineOffset + 1

\* C28: in the keyword-scan engine a keyword flagged isSingleWord is linked
\* only at an occurrence that is a whole word, equal to the keyword
\* case-insensitively: the inserted link has no word character right
\* before it or right after it.
C28_SingleWordWholeWord ==
    (pc = "scanKeyword" /\ outcome = "inserted" /\ keywordIdx > 1
        /\ sortedKeywords[keywordIdx - 1].meta.isSingleWord)
    => /\ ToLower(phrase) = ToLower(sortedKeywords[keywordIdx - 1].key)
       /\ LastInsertedAt = 1 \/ currentLine[LastInsertedAt - 1] \notin WordChars
       /\ \A k \in 1..Len(currentLine) :
             k = linkPositions[Len(linkPositions)].end - lineOffset + 1
                => currentLine[k] \notin WordChars
====
